---- MODULE Spec2Model ----
(***************************************************************************)
(* Ofertownik: the roofing estimation engine.                              *)
(*                                                                         *)
(* Numbers.  The program computes in IEEE doubles; the model computes in   *)
(* exact scaled integers:                                                  *)
(*   quantity            tenths            (15   = 1.5)                    *)
(*   price_unit_net,     thousandths       (2750 = 2.75)                   *)
(*   purchase_price                                                        *)
(*   total_net, vat_value, total_gross, bucket and summary amounts         *)
(*                       cents             (550  = 5.50)                   *)
(*   vat_rate, margins   whole percent                                     *)
(*   transport_percent   tenths of percent (30   = 3.0 %)                  *)
(* A double differs from the exact value by a relative 1e-16, which        *)
(* changes a rounding to cents only when the exact value is a half cent:   *)
(* the double then lies on the tie or just below it.  The *BelowTie tables *)
(* list the inputs of the model for which the program's double lies below  *)
(* the tie (the values the program produces on these inputs).              *)
(* An optional value (None in the program) is <<>>, a present one <<v>>.   *)
(***************************************************************************)
EXTENDS Integers, Sequences, FiniteSets, TLC

VARIABLES
    items,              \* the caller's list of line items
    transport_percent,  \* the caller's transport surcharge, tenths of percent
    transport_vat,      \* the caller's transport VAT rate
    settings,           \* the caller's MarginSettings
    before_items,       \* items as they were when the last call was made
    result,             \* the last call: its name, arguments and return value
    heap,               \* the dictionaries of the program, by identity
    cost_items,         \* the application's live item list (references)
    history,            \* the application's CostEstimateHistory
    manager,            \* the caller's VersionManager
    settings_data,      \* a dictionary returned by MarginSettings.to_dict
    restored            \* a MarginSettings returned by MarginSettings.from_dict

objects == <<heap, cost_items, history, manager, settings_data, restored>>

vars == <<items, transport_percent, transport_vat, settings, before_items, result,
          objects>>

None == <<>>
Some(v) == <<v>>

\* A caller that holds none of the objects.
NoObjects ==
    /\ heap = <<>>
    /\ cost_items = <<>>
    /\ history = None
    /\ manager = None
    /\ settings_data = None
    /\ restored = None

Abs(n) == IF n < 0 THEN -n ELSE n
Sign(n) == IF n < 0 THEN -1 ELSE 1

----------------------------------------------------------------------------
(* Bounds and input values *)

MaxItems == 2

\* <<quantity, price_unit_net>>: 0.104 (off the cent), 0.035 and 0.045 (half
\* cents), 5.50, and a negative quantity.
QtyPrice == {<<4, 260>>, <<1, 350>>, <<15, 30>>, <<20, 2750>>, <<-10, 260>>}

\* <<vat_rate, category>>; "" is a missing category.
VatCategory == {<<23, "material">>, <<8, "Service">>, <<0, "">>}

TransportPercents == {-30, 0, 1, 30}
TransportVats == {0, 23}

NewItem(q, p, v, c) ==
    [quantity |-> q, price_unit_net |-> p, vat_rate |-> v, category |-> c,
     group |-> "", margin_percent |-> None, purchase_price |-> None,
     total_net |-> 0, vat_value |-> 0, total_gross |-> 0]

PricingItems ==
    {NewItem(qp[1], qp[2], vc[1], vc[2]) : qp \in QtyPrice, vc \in VatCategory}

SeqsUpTo(S, n) == UNION {[1..k -> S] : k \in 0..n}

----------------------------------------------------------------------------
(* cost_calculations.py *)

\* n/d rounded to an integer, halves away from zero (Decimal ROUND_HALF_UP).
RoundHalfUp(n, d) == Sign(n) * ((2 * Abs(n) + d) \div (2 * d))

IsTie(n, d) == (2 * Abs(n)) % (2 * d) = d

\* _round(val, 2) of a double val whose exact value is n/d cents: str(val)
\* is the double's shortest decimal, so a double below the tie rounds
\* towards zero.
_round(n, d, below) ==
    IF IsTie(n, d) /\ below THEN Sign(n) * (Abs(n) \div d)
    ELSE RoundHalfUp(n, d)

\* qty * price_net is a double below its half cent.
NetBelowTie == {<<1, 350>>}
\* total_net * vat / 100.0 is below its half cent.
VatBelowTie == {}
\* total_net + vat_value is below its half cent.
GrossBelowTie == {<<1, 350, 0>>}

lower(c) == IF c = "Service" THEN "service" ELSE c

\* The item a call of compute_item returns (item_out).
compute_item(item) ==
    LET qty == item.quantity
        price_net == item.price_unit_net
        vat == item.vat_rate
        total_net == qty * price_net                    \* 1e-4
        vat_value == total_net * vat                    \* 1e-6
        total_gross == total_net * 100 + vat_value      \* 1e-6
    IN  [item EXCEPT
            !.total_net = _round(total_net, 100, <<qty, price_net>> \in NetBelowTie),
            !.vat_value = _round(vat_value, 10000, <<qty, price_net, vat>> \in VatBelowTie),
            !.total_gross = _round(total_gross, 10000, <<qty, price_net, vat>> \in GrossBelowTie),
            !.quantity = qty,
            !.price_unit_net = 10 * RoundHalfUp(price_net, 10),
            !.vat_rate = vat,
            !.category = lower(IF item.category = "" THEN "material" ELSE item.category)]

argument_after_compute_item_no_copy(item) == compute_item(item)

\* The argument after a call of compute_item: item_out = dict(item) is a
\* copy, and only the copy is assigned to.
argument_after_compute_item(item) == item

\* The dictionary of sums {"net": 0.0, "vat": 0.0, "gross": 0.0}.
ZeroSums == [net |-> 0, vat |-> 0, gross |-> 0]

AddSums(s, n, v, g) == [net |-> s.net + n, vat |-> s.vat + v, gross |-> s.gross + g]

\* buckets[key] += (n, v, g), the bucket created when the key is new.
AddToBucket(buckets, key, n, v, g) ==
    LET old == IF key \in DOMAIN buckets THEN buckets[key] ELSE ZeroSums
    IN  [k \in DOMAIN buckets \cup {key} |->
            IF k = key THEN AddSums(old, n, v, g) ELSE buckets[k]]

EmptyBuckets == [k \in {} |-> ZeroSums]

\* The loop over the items: by_vat, by_cat and the three running totals
\* after the first k augmented items.
RECURSIVE Aggregate(_, _)
Aggregate(aug, k) ==
    IF k = 0 THEN [by_vat |-> EmptyBuckets, by_cat |-> EmptyBuckets, total |-> ZeroSums]
    ELSE LET acc == Aggregate(aug, k - 1)
             a == aug[k]
         IN  [by_vat |-> AddToBucket(acc.by_vat, a.vat_rate,
                                     a.total_net, a.vat_value, a.total_gross),
              by_cat |-> AddToBucket(acc.by_cat, lower(a.category),
                                     a.total_net, a.vat_value, a.total_gross),
              total |-> AddSums(acc.total, a.total_net, a.vat_value, a.total_gross)]

\* total_net * (tp / 100.0) is a double below its half cent.
TransportBelowTie == {<<550, 30>>}

Transport_of_flat_amount(total_net, tp, tv) ==
    IF tp > 0
    THEN LET transport_net == tp * 10
             transport_vat_value ==
                 IF tv # 0 THEN _round(transport_net * tv, 100, FALSE) ELSE 0
         IN  [net |-> transport_net, vat |-> transport_vat_value,
              gross |-> transport_net + transport_vat_value]
    ELSE ZeroSums

\* The transport line: a percentage of the items' net sum.
Transport(total_net, tp, tv) ==
    IF tp > 0 /\ total_net > 0
    THEN LET transport_net == _round(total_net * tp, 1000,
                                     <<total_net, tp>> \in TransportBelowTie)
             transport_vat_value ==
                 IF tv # 0 THEN _round(transport_net * tv, 100, FALSE) ELSE 0
         IN  [net |-> transport_net, vat |-> transport_vat_value,
              gross |-> transport_net + transport_vat_value]
    ELSE ZeroSums

FoldTransport_dropped(buckets, key, t) == buckets

\* The transport folded into a bucket map, when there is any.
FoldTransport(buckets, key, t) ==
    IF t.net # 0 THEN AddToBucket(buckets, key, t.net, t.vat, t.gross)
    ELSE buckets

\* The sums are sums of cents: the closing _round of each aggregate is the
\* identity on them.
compute_totals(its, tp, tv) ==
    LET augmented == [i \in 1..Len(its) |-> compute_item(its[i])]
        acc == Aggregate(augmented, Len(its))
        t == Transport(acc.total.net, tp, tv)
    IN  [items |-> augmented,
         by_vat |-> FoldTransport(acc.by_vat, tv, t),
         by_category |-> FoldTransport(acc.by_cat, "service", t),
         transport |-> [net |-> t.net, vat |-> t.vat, gross |-> t.gross,
                        vat_rate |-> tv, percent |-> tp],
         summary |-> AddSums(acc.total, t.net, t.vat, t.gross)]

----------------------------------------------------------------------------
(* margin_calculator.py *)

\* global_margin_percent: float = 20.0
DefaultGlobalMargin == 20

NoGroupMargins == [g \in {} |-> 0]

\* MarginSettings(global_margin_percent = g), group_margins empty.
MarginSettings(g) == [global_margin_percent |-> g, group_margins |-> NoGroupMargins]

\* Python's round(val, 2) of a double val whose exact value is n/d cents,
\* d > 0.  Off a half cent it is the nearest cent; on a half cent the result
\* follows the double (below the tie, above it, or on it and then to the
\* even cent): down says that the program returns the cent nearer to zero.
round(n, d, down) ==
    IF IsTie(n, d) /\ down THEN Sign(n) * (Abs(n) \div d)
    ELSE RoundHalfUp(n, d)

\* "group and ...": neither None nor the empty string.
Truthy(group) == group # None /\ group[1] # ""

item_override_when_nonzero(s, group, item_margin_override) ==
    IF item_margin_override # None /\ item_margin_override[1] # 0
    THEN item_margin_override[1]
    ELSE IF Truthy(group) /\ group[1] \in DOMAIN s.group_margins
    THEN s.group_margins[group[1]]
    ELSE s.global_margin_percent

\* The margin calculate_selling_price determines.
selling_margin(s, group, item_margin_override) ==
    IF item_margin_override # None THEN item_margin_override[1]
    ELSE IF Truthy(group) /\ group[1] \in DOMAIN s.group_margins
    THEN s.group_margins[group[1]]
    ELSE s.global_margin_percent

\* The margin calculate_purchase_price determines.
purchase_margin(s, group, item_margin_override) ==
    IF item_margin_override # None THEN item_margin_override[1]
    ELSE IF Truthy(group) /\ group[1] \in DOMAIN s.group_margins
    THEN s.group_margins[group[1]]
    ELSE s.global_margin_percent

get_margin_for_item(s, group, item_margin_override) ==
    IF item_margin_override # None THEN item_margin_override[1]
    ELSE IF Truthy(group) /\ group[1] \in DOMAIN s.group_margins
    THEN s.group_margins[group[1]]
    ELSE s.global_margin_percent

\* <<purchase_price, margin>> whose selling price is a half cent that the
\* program rounds towards zero.
SellingRoundsDown == {<<1250, -90>>, <<1250, 30>>, <<1255, 0>>}

\* The selling price in cents of a purchase price in thousandths.
calculate_selling_price(s, purchase_price, group, item_margin_override) ==
    LET margin == selling_margin(s, group, item_margin_override)
    IN  round(purchase_price * (100 + margin), 1000,
              <<purchase_price, margin>> \in SellingRoundsDown)

\* <<selling_price, margin>> whose purchase price is a half cent that the
\* program rounds towards zero.
PurchaseRoundsDown == {}

Returned(v) == [error |-> "", value |-> v]
Raised(e) == [error |-> e, value |-> 0]

calculate_purchase_price_times(s, selling_price, group, item_margin_override) ==
    LET margin == purchase_margin(s, group, item_margin_override)
    IN  Returned(round(selling_price * (100 + margin), 100, FALSE))

calculate_purchase_price_guarded(s, selling_price, group, item_margin_override) ==
    LET margin == purchase_margin(s, group, item_margin_override)
        d == 100 + margin
    IN  IF d = 0 THEN Returned(0)
        ELSE Returned(round(Sign(d) * selling_price * 100, Abs(d),
                            <<selling_price, margin>> \in PurchaseRoundsDown))

\* The purchase price in cents of a selling price in cents: the division
\* raises when 1 + margin / 100.0 is 0.
calculate_purchase_price(s, selling_price, group, item_margin_override) ==
    LET margin == purchase_margin(s, group, item_margin_override)
        d == 100 + margin
    IN  IF d = 0 THEN Raised("ZeroDivisionError")
        ELSE Returned(round(Sign(d) * selling_price * 100, Abs(d),
                            <<selling_price, margin>> \in PurchaseRoundsDown))

set_group_margin_of_new_group(s, group, margin_percent) ==
    IF group \in DOMAIN s.group_margins THEN s
    ELSE [s EXCEPT !.group_margins =
            [g \in DOMAIN @ \cup {group} |-> IF g = group THEN margin_percent ELSE @[g]]]

set_group_margin(s, group, margin_percent) ==
    [s EXCEPT !.group_margins =
        [g \in DOMAIN @ \cup {group} |-> IF g = group THEN margin_percent ELSE @[g]]]

remove_group_margin(s, group) ==
    IF group \in DOMAIN s.group_margins
    THEN [s EXCEPT !.group_margins = [g \in DOMAIN @ \ {group} |-> @[g]]]
    ELSE s

\* <<quantity, price_unit_net>> whose product is a half cent that round()
\* takes towards zero, and <<total_net, vat_rate>> likewise.
TotalNetRoundsDown == {}
VatValueRoundsDown == {}

\* CostItem.calculate_totals, cost_item.py
calculate_totals(item) ==
    LET total_net == round(item.quantity * item.price_unit_net, 100,
                           <<item.quantity, item.price_unit_net>> \in TotalNetRoundsDown)
        vat_value == round(total_net * item.vat_rate, 100,
                           <<total_net, item.vat_rate>> \in VatValueRoundsDown)
    IN  [item EXCEPT !.total_net = total_net,
                     !.vat_value = vat_value,
                     !.total_gross = total_net + vat_value]

\* One round of the loop of apply_margin_to_items: the item object after it.
apply_margin_to_item(s, item) ==
    LET priced ==
            IF item.purchase_price # None
            THEN [item EXCEPT !.price_unit_net =
                    10 * calculate_selling_price(s, item.purchase_price[1],
                                                 Some(item.group), item.margin_percent)]
            ELSE item
    IN  calculate_totals(priced)

\* MarginCalculator.apply_margin_to_items assigns to the items it is given
\* and returns the list it is given.
apply_margin_to_items(s, its) == [i \in 1..Len(its) |-> apply_margin_to_item(s, its[i])]

----------------------------------------------------------------------------
(* The caller *)

NoCall == [op |-> "none"]

Init ==
    /\ NoObjects
    /\ items \in SeqsUpTo(PricingItems, MaxItems)
    /\ transport_percent \in TransportPercents
    /\ transport_vat \in TransportVats
    /\ settings = MarginSettings(DefaultGlobalMargin)
    /\ before_items = items
    /\ result = NoCall

ComputeItem(i) ==
    /\ result' = [op |-> "compute_item", index |-> i, ret |-> compute_item(items[i])]
    /\ items' = [items EXCEPT ![i] = argument_after_compute_item(@)]
    /\ before_items' = items
    /\ UNCHANGED <<transport_percent, transport_vat, settings, objects>>

\* compute_totals calls compute_item on every item of the list.
ComputeTotals ==
    /\ result' = [op |-> "compute_totals",
                  ret |-> compute_totals(items, transport_percent, transport_vat)]
    /\ items' = [i \in 1..Len(items) |-> argument_after_compute_item(items[i])]
    /\ before_items' = items
    /\ UNCHANGED <<transport_percent, transport_vat, settings, objects>>

Next ==
    \/ \E i \in 1..Len(items) : ComputeItem(i)
    \/ ComputeTotals

Spec == Init /\ [][Next]_vars

----------------------------------------------------------------------------
(* The caller of MarginSettings *)

GlobalMargins == {-100, -90, 0, DefaultGlobalMargin}
GroupMarginValues == {-90, 30}
GroupNames == {"", "Materials"}
GroupArgs == {None, Some(""), Some("Materials"), Some("Other")}
OverrideArgs == {None, Some(0), Some(15)}
\* thousandths: 0.02, 0.04, 1.25, 1.255, 100.00
PurchasePrices == {20, 40, 1250, 1255, 100000}
\* cents: 0.13, 125.00
SellingPrices == {13, 12500}

InitMargin ==
    /\ NoObjects
    /\ items = <<>>
    /\ transport_percent = 0
    /\ transport_vat = 0
    /\ settings \in {MarginSettings(g) : g \in GlobalMargins}
    /\ before_items = items
    /\ result = NoCall

SetGroupMargin(group, m) ==
    /\ settings' = set_group_margin(settings, group, m)
    /\ result' = [op |-> "set_group_margin", group |-> group, margin_percent |-> m]
    /\ before_items' = items
    /\ UNCHANGED <<items, transport_percent, transport_vat, objects>>

RemoveGroupMargin(group) ==
    /\ settings' = remove_group_margin(settings, group)
    /\ result' = [op |-> "remove_group_margin", group |-> group]
    /\ before_items' = items
    /\ UNCHANGED <<items, transport_percent, transport_vat, objects>>

CalculateSellingPrice(p, group, override) ==
    /\ result' = [op |-> "calculate_selling_price", purchase_price |-> p,
                  group |-> group, item_margin_override |-> override,
                  margin |-> selling_margin(settings, group, override),
                  ret |-> calculate_selling_price(settings, p, group, override)]
    /\ before_items' = items
    /\ UNCHANGED <<items, transport_percent, transport_vat, settings, objects>>

CalculatePurchasePrice(sp, group, override) ==
    /\ result' = [op |-> "calculate_purchase_price", selling_price |-> sp,
                  group |-> group, item_margin_override |-> override,
                  margin |-> purchase_margin(settings, group, override),
                  of_purchase |-> None,
                  ret |-> calculate_purchase_price(settings, sp, group, override)]
    /\ before_items' = items
    /\ UNCHANGED <<items, transport_percent, transport_vat, settings, objects>>

\* calculate_purchase_price of the selling price just calculated, with the
\* same group and override.
PurchaseOfSelling ==
    /\ result.op = "calculate_selling_price"
    /\ result' = [op |-> "calculate_purchase_price", selling_price |-> result.ret,
                  group |-> result.group,
                  item_margin_override |-> result.item_margin_override,
                  margin |-> purchase_margin(settings, result.group,
                                             result.item_margin_override),
                  of_purchase |-> Some(result.purchase_price),
                  ret |-> calculate_purchase_price(settings, result.ret, result.group,
                                                   result.item_margin_override)]
    /\ before_items' = items
    /\ UNCHANGED <<items, transport_percent, transport_vat, settings, objects>>

GetMarginForItem(group, override) ==
    /\ result' = [op |-> "get_margin_for_item", group |-> group,
                  item_margin_override |-> override,
                  margin |-> get_margin_for_item(settings, group, override),
                  ret |-> get_margin_for_item(settings, group, override)]
    /\ before_items' = items
    /\ UNCHANGED <<items, transport_percent, transport_vat, settings, objects>>

NextMargin ==
    \/ \E g \in GroupNames, m \in GroupMarginValues : SetGroupMargin(g, m)
    \/ \E g \in GroupNames : RemoveGroupMargin(g)
    \/ \E p \in PurchasePrices, g \in GroupArgs, o \in OverrideArgs :
            CalculateSellingPrice(p, g, o)
    \/ \E sp \in SellingPrices, g \in GroupArgs, o \in OverrideArgs :
            CalculatePurchasePrice(sp, g, o)
    \/ PurchaseOfSelling
    \/ \E g \in GroupArgs, o \in OverrideArgs : GetMarginForItem(g, o)

SpecMargin == InitMargin /\ [][NextMargin]_vars

----------------------------------------------------------------------------
(* The caller of MarginCalculator and of the pricing functions on one list *)

CostItem(q, p, v, g, m, pp) ==
    [NewItem(q, p, v, "material") EXCEPT !.group = g, !.margin_percent = m,
                                        !.purchase_price = pp]

MarginItems ==
    {CostItem(10, 0, 23, "Materials", None, Some(100000)),
     CostItem(25, 1500, 23, "", None, None),
     CostItem(10, 0, 8, "", Some(0), Some(1255)),
     CostItem(4, 260, 8, "Materials", None, None)}

FrameSettings ==
    {MarginSettings(DefaultGlobalMargin),
     set_group_margin(MarginSettings(DefaultGlobalMargin), "Materials", 30)}

InitFrame ==
    /\ NoObjects
    /\ items \in SeqsUpTo(MarginItems, MaxItems)
    /\ transport_percent = 30
    /\ transport_vat = 23
    /\ settings \in FrameSettings
    /\ before_items = items
    /\ result = NoCall

ApplyMarginToItems ==
    /\ items' = apply_margin_to_items(settings, items)
    /\ result' = [op |-> "apply_margin_to_items", ret |-> items']
    /\ before_items' = items
    /\ UNCHANGED <<transport_percent, transport_vat, settings, objects>>

NextFrame ==
    \/ ApplyMarginToItems
    \/ \E i \in 1..Len(items) : ComputeItem(i)
    \/ ComputeTotals

SpecFrame == InitFrame /\ [][NextFrame]_vars

----------------------------------------------------------------------------
(* Pricing: compute_item and compute_totals *)

RECURSIVE SumOver(_, _)
SumOver(f, S) ==
    IF S = {} THEN ZeroSums
    ELSE LET k == CHOOSE x \in S : TRUE
             rest == SumOver(f, S \ {k})
         IN  AddSums(rest, f[k].net, f[k].vat, f[k].gross)

SumBuckets(buckets) == SumOver(buckets, DOMAIN buckets)

RECURSIVE SumItems(_, _)
SumItems(its, k) ==
    IF k = 0 THEN ZeroSums
    ELSE AddSums(SumItems(its, k - 1),
                 its[k].total_net, its[k].vat_value, its[k].total_gross)

\* The sums of the items of one VAT rate, or of one category.
RECURSIVE SumItemsWhere(_, _, _, _)
SumItemsWhere(its, k, field, key) ==
    IF k = 0 THEN ZeroSums
    ELSE LET rest == SumItemsWhere(its, k - 1, field, key)
             hit == IF field = "vat_rate" THEN its[k].vat_rate = key
                    ELSE its[k].category = key
         IN  IF hit THEN AddSums(rest, its[k].total_net, its[k].vat_value,
                                 its[k].total_gross)
             ELSE rest

\* C1: the item compute_item returns has total_gross = total_net + vat_value,
\* to the cent.
C1_GrossIsNetPlusVat ==
    result.op = "compute_item" =>
        result.ret.total_gross = result.ret.total_net + result.ret.vat_value

\* C2: compute_item returns total_net = round2(quantity * price_unit_net),
\* vat_value = round2(total_net * vat_rate / 100) of the rounded net, and
\* total_gross = round2(total_net + vat_value) of the two rounded values,
\* round2 rounding halves away from zero.
C2_RoundedFromRounded ==
    result.op = "compute_item" =>
        LET it == items[result.index]
            net == RoundHalfUp(it.quantity * it.price_unit_net, 100)
            vat == RoundHalfUp(net * it.vat_rate, 100)
        IN  /\ result.ret.total_net = net
            /\ result.ret.vat_value = vat
            /\ result.ret.total_gross = RoundHalfUp(net + vat, 1)

\* C3: in the result of compute_totals the summary equals the sum of the
\* by_vat buckets and the sum of the by_category buckets, in net, vat and
\* gross.
C3_SummaryIsSumOfBuckets ==
    result.op = "compute_totals" =>
        /\ SumBuckets(result.ret.by_vat) = result.ret.summary
        /\ SumBuckets(result.ret.by_category) = result.ret.summary

\* C3's case: two items of different VAT rates and a transport line that
\* creates the service bucket.
C3_Witness ==
    /\ result.op = "compute_totals"
    /\ Len(items) = 2
    /\ result.ret.transport.net > 0
    /\ Cardinality(DOMAIN result.ret.by_vat) >= 2
    /\ \A i \in 1..2 : result.ret.items[i].category = "material"
    /\ "service" \in DOMAIN result.ret.by_category

BucketOf(buckets, key) == IF key \in DOMAIN buckets THEN buckets[key] ELSE ZeroSums

\* C4: transport.net = round2(sum of total_net * p / 100), transport.vat =
\* round2(transport.net * r / 100), transport.gross = net + vat, for every
\* item list and percent; the three amounts are added to by_vat[r], to
\* by_category["service"] (the bucket created when no item has it) and to
\* the summary.
C4_TransportLine ==
    result.op = "compute_totals" =>
        LET r == result.ret
            n == Len(r.items)
            sums == SumItems(r.items, n)
            net == RoundHalfUp(sums.net * r.transport.percent, 1000)
            vat == RoundHalfUp(net * r.transport.vat_rate, 100)
            vatItems == SumItemsWhere(r.items, n, "vat_rate", r.transport.vat_rate)
            svcItems == SumItemsWhere(r.items, n, "category", "service")
        IN  /\ r.transport.net = net
            /\ r.transport.vat = vat
            /\ r.transport.gross = net + vat
            /\ net # 0 => /\ r.transport.vat_rate \in DOMAIN r.by_vat
                          /\ "service" \in DOMAIN r.by_category
            /\ BucketOf(r.by_vat, r.transport.vat_rate)
                    = AddSums(vatItems, net, vat, net + vat)
            /\ BucketOf(r.by_category, "service")
                    = AddSums(svcItems, net, vat, net + vat)
            /\ r.summary = AddSums(sums, net, vat, net + vat)

----------------------------------------------------------------------------
(* Margins: MarginSettings *)

MarginCalls == {"calculate_selling_price", "calculate_purchase_price",
                "get_margin_for_item"}

\* A group is given: the argument is neither None nor the empty name that
\* CostItem.group holds for an item outside every group.
GroupGiven(group) == group # None /\ group[1] # ""

\* C5: get_margin_for_item, calculate_selling_price and
\* calculate_purchase_price all use the item override whenever one is given
\* (0 included), else the margin of the given group when group_margins has an
\* entry for it, else global_margin_percent.
C5_ApplicableMargin ==
    result.op \in MarginCalls =>
        result.margin =
            IF result.item_margin_override # None
            THEN result.item_margin_override[1]
            ELSE IF GroupGiven(result.group)
                    /\ result.group[1] \in DOMAIN settings.group_margins
            THEN settings.group_margins[result.group[1]]
            ELSE settings.global_margin_percent

\* C5's case: an override of 0 wins over a mapped group and a nonzero global
\* margin.
C5_Witness ==
    /\ result.op = "calculate_selling_price"
    /\ result.item_margin_override = Some(0)
    /\ result.group = Some("Materials")
    /\ "Materials" \in DOMAIN settings.group_margins
    /\ settings.global_margin_percent # 0
    /\ result.margin = 0
    /\ result.ret * 10 = result.purchase_price

\* C6 as stated: for every margin the settings can hold,
\* calculate_purchase_price of calculate_selling_price of p returns a price
\* within 0.01 of p.
C6_RoundTripWithinCent ==
    (result.op = "calculate_purchase_price" /\ result.of_purchase # None) =>
        /\ result.ret.error = ""
        /\ Abs(result.ret.value * 10 - result.of_purchase[1]) <= 10

\* C6 amended: the same for every applicable margin >= 0.
C6_RoundTripWithinCentNonNegative ==
    (/\ result.op = "calculate_purchase_price"
     /\ result.of_purchase # None
     /\ result.margin >= 0) =>
        /\ result.ret.error = ""
        /\ Abs(result.ret.value * 10 - result.of_purchase[1]) <= 10

\* C6's case: a positive margin and a round trip that does not return the
\* original price.
C6_Witness ==
    /\ result.op = "calculate_purchase_price"
    /\ result.of_purchase # None
    /\ result.margin > 0
    /\ result.ret.error = ""
    /\ result.ret.value * 10 # result.of_purchase[1]

----------------------------------------------------------------------------
(* Frame: what the engine's operations do to their arguments *)

EngineCalls == {"compute_item", "compute_totals", "apply_margin_to_items"}

SameOutsidePricing(a, b) ==
    /\ a.quantity = b.quantity
    /\ a.vat_rate = b.vat_rate
    /\ a.category = b.category
    /\ a.group = b.group
    /\ a.margin_percent = b.margin_percent
    /\ a.purchase_price = b.purchase_price

C7_ApplyMarginWitness ==
    /\ result.op = "apply_margin_to_items"
    /\ \E i \in 1..Len(items) : items[i].price_unit_net # before_items[i].price_unit_net

----------------------------------------------------------------------------
(* roof_calculations.py *)
(* A float is an exact fraction <<n, d>> in lowest terms with d > 0, or    *)
(* one of the IEEE values inf, -inf and nan, which have d = 0.  Cosines    *)
(* and the square root of 2 are taken to three decimals; the arithmetic    *)
(* on them is exact.                                                       *)

RECURSIVE GCD(_, _)
GCD(a, b) == IF b = 0 THEN a ELSE GCD(b, a % b)

Float(n, d) ==
    LET g == GCD(Abs(n), Abs(d))
    IN  <<Sign(d) * (n \div g), Abs(d) \div g>>

inf == <<1, 0>>
neg_inf == <<-1, 0>>
nan == <<0, 0>>

IsFinite(a) == a[2] # 0
IsInf(a) == a[2] = 0 /\ a[1] # 0

Mul(a, b) ==
    IF a = nan \/ b = nan THEN nan
    ELSE IF IsInf(a) \/ IsInf(b)
         THEN IF a[1] = 0 \/ b[1] = 0 THEN nan
              ELSE IF Sign(a[1]) = Sign(b[1]) THEN inf ELSE neg_inf
    ELSE Float(a[1] * b[1], a[2] * b[2])

Add(a, b) ==
    IF a = nan \/ b = nan THEN nan
    ELSE IF IsInf(a) /\ IsInf(b) THEN IF a = b THEN a ELSE nan
    ELSE IF IsInf(a) THEN a
    ELSE IF IsInf(b) THEN b
    ELSE Float(a[1] * b[2] + b[1] * a[2], a[2] * b[2])

Sub(a, b) == Add(a, Mul(Float(-1, 1), b))

\* a / b for a finite b other than 0.
Div(a, b) == Mul(a, Float(b[2], b[1]))

\* a >= b for finite a and b.
Ge(a, b) == a[1] * b[2] >= b[1] * a[2]

\* dl and szer in metres; 0 is a zero-length input.
Lengths == {Float(0, 1), Float(6, 1), Float(8, 1), Float(10, 1)}

\* angle_degrees: inside [0, 90), at 90, and outside on either side.
Angles == {-60, 0, 30, 45, 60, 90, 120}

AngleArgs == {None} \cup {Some(a) : a \in Angles}

\* math.cos(math.radians(degrees)) to three decimals.
cos(degrees) ==
    Float(CASE degrees = 0 -> 1000
            [] degrees = 30 -> 866
            [] degrees = 45 -> 707
            [] degrees \in {60, -60} -> 500
            [] degrees = 90 -> 0
            [] degrees = 120 -> -500, 1000)

\* math.sqrt(2) to three decimals.
Sqrt2 == Float(1414, 1000)

calculate_slant_length(horizontal_length, angle_degrees) ==
    IF angle_degrees = Some(90) THEN inf
    ELSE IF angle_degrees = Some(0) \/ angle_degrees = None
         THEN horizontal_length
    ELSE IF cos(angle_degrees[1])[1] = 0 THEN inf
    ELSE Div(horizontal_length, cos(angle_degrees[1]))

calculate_horizontal_length(slant_length, angle_degrees) ==
    IF angle_degrees = None THEN slant_length
    ELSE Mul(slant_length, cos(angle_degrees[1]))

\* The results dict; dlugosc_koszy stays 0.0 in all three functions, and
\* roof_angle_deg stays 0.0 when no angle is applied.
results(dlugosc_okapu, dlugosc_gasiorow, dlugosc_wiatrownic, powierzchnia_dachu, slant_rafter_length, roof_angle_deg) ==
    [dlugosc_okapu |-> dlugosc_okapu, dlugosc_gasiorow |-> dlugosc_gasiorow,
     dlugosc_wiatrownic |-> dlugosc_wiatrownic,
     powierzchnia_dachu |-> powierzchnia_dachu,
     dlugosc_koszy |-> Float(0, 1),
     slant_rafter_length |-> slant_rafter_length,
     roof_angle_deg |-> roof_angle_deg]

calculate_single_slope_roof(dl, szer, angle_degrees, is_real_dimensions) ==
    IF is_real_dimensions
    THEN Returned(results(dl, Float(0, 1), Mul(Float(2, 1), szer),
                          Mul(dl, szer), szer, Float(0, 1)))
    ELSE IF angle_degrees = None THEN Raised("ValueError")
    ELSE LET slant_szer == calculate_slant_length(szer, angle_degrees)
         IN  Returned(results(dl, Float(0, 1), Mul(Float(2, 1), slant_szer),
                              Mul(dl, slant_szer), slant_szer,
                              Float(angle_degrees[1], 1)))

\* The gable roof of rafter length slant_krokiew_len.
gable_roof(dl, slant_krokiew_len, roof_angle_deg) ==
    results(Mul(Float(2, 1), dl), dl, Mul(Float(4, 1), slant_krokiew_len),
            Mul(Mul(Float(2, 1), dl), slant_krokiew_len), slant_krokiew_len,
            roof_angle_deg)

calculate_gable_roof_of_whole_width(dl, szer, angle_degrees, is_real_dimensions) ==
    IF is_real_dimensions THEN Returned(gable_roof(dl, szer, Float(0, 1)))
    ELSE IF angle_degrees = None THEN Raised("ValueError")
    ELSE Returned(gable_roof(dl, calculate_slant_length(szer, angle_degrees),
                             Float(angle_degrees[1], 1)))

calculate_gable_roof(dl, szer, angle_degrees, is_real_dimensions) ==
    IF is_real_dimensions THEN Returned(gable_roof(dl, szer, Float(0, 1)))
    ELSE IF angle_degrees = None THEN Raised("ValueError")
    ELSE LET half_szer_horizontal == Div(szer, Float(2, 1))
             slant_krokiew_len ==
                calculate_slant_length(half_szer_horizontal, angle_degrees)
         IN  Returned(gable_roof(dl, slant_krokiew_len,
                                 Float(angle_degrees[1], 1)))

hip_roof_of_given_orientation(dl, szer, angle_degrees) ==
    LET kalenica_pozioma_dl_horizontal == Sub(dl, szer)
        half == Div(szer, Float(2, 1))
        hip_rafter_horizontal_proj == Mul(Float(Abs(half[1]), half[2]), Sqrt2)
        slant_grzbiet_len ==
            calculate_slant_length(hip_rafter_horizontal_proj, angle_degrees)
        slant_krokiew == calculate_slant_length(half, angle_degrees)
    IN  results(Mul(Float(2, 1), Add(dl, szer)),
                Add(Mul(Float(4, 1), slant_grzbiet_len),
                    kalenica_pozioma_dl_horizontal),
                Float(0, 1),
                Add(Mul(Float(2, 1), Mul(Mul(Float(1, 2), szer), slant_krokiew)),
                    Mul(Float(2, 1),
                        Mul(Mul(Float(1, 2), Add(kalenica_pozioma_dl_horizontal, dl)),
                            slant_krokiew))),
                slant_krokiew,
                Float(angle_degrees[1], 1))

\* The hip roof once the angle is known to be given; dl and szer are the
\* base's dimensions in both modes.
hip_roof(dl, szer, angle_degrees) ==
    LET swap == ~Ge(dl, szer)
        kalenica_pozioma_dl_horizontal ==
            IF swap THEN Sub(szer, dl) ELSE Sub(dl, szer)
        horizontal_dl == IF swap THEN szer ELSE dl
        horizontal_szer == IF swap THEN dl ELSE szer
        half == Div(horizontal_szer, Float(2, 1))
        \* sqrt(half ** 2 + half ** 2)
        hip_rafter_horizontal_proj == Mul(Float(Abs(half[1]), half[2]), Sqrt2)
        slant_grzbiet_len ==
            calculate_slant_length(hip_rafter_horizontal_proj, angle_degrees)
        slant_krokiew_dluga_polac == calculate_slant_length(half, angle_degrees)
        slant_krokiew_krotka_polac == calculate_slant_length(half, angle_degrees)
        area_side_triangles ==
            Mul(Float(2, 1),
                Mul(Mul(Float(1, 2), horizontal_szer), slant_krokiew_krotka_polac))
        area_front_trapezoids ==
            Mul(Float(2, 1),
                Mul(Mul(Float(1, 2),
                        Add(kalenica_pozioma_dl_horizontal, horizontal_dl)),
                    slant_krokiew_dluga_polac))
    IN  results(Mul(Float(2, 1), Add(dl, szer)),
                Add(Mul(Float(4, 1), slant_grzbiet_len),
                    kalenica_pozioma_dl_horizontal),
                Float(0, 1),
                Add(area_side_triangles, area_front_trapezoids),
                slant_krokiew_dluga_polac,
                Float(angle_degrees[1], 1))

calculate_hip_roof_of_flat_roof(dl, szer, angle_degrees, is_real_dimensions) ==
    IF angle_degrees = None THEN Returned(hip_roof(dl, szer, Some(0)))
    ELSE Returned(hip_roof(dl, szer, angle_degrees))

calculate_hip_roof(dl, szer, angle_degrees, is_real_dimensions) ==
    IF angle_degrees = None THEN Raised("ValueError")
    ELSE Returned(hip_roof(dl, szer, angle_degrees))

----------------------------------------------------------------------------
(* A caller of the roof functions *)

InitRoof ==
    /\ NoObjects
    /\ items = <<>>
    /\ transport_percent = 0
    /\ transport_vat = 0
    /\ settings = MarginSettings(DefaultGlobalMargin)
    /\ before_items = items
    /\ result = NoCall

CalculateSingleSlopeRoof(dl, szer, angle_degrees, is_real_dimensions) ==
    /\ result' = [op |-> "calculate_single_slope_roof", dl |-> dl, szer |-> szer,
                  angle_degrees |-> angle_degrees,
                  is_real_dimensions |-> is_real_dimensions,
                  ret |-> calculate_single_slope_roof(dl, szer, angle_degrees,
                                                          is_real_dimensions)]
    /\ UNCHANGED <<items, transport_percent, transport_vat, settings, before_items, objects>>

CalculateGableRoof(dl, szer, angle_degrees, is_real_dimensions) ==
    /\ result' = [op |-> "calculate_gable_roof", dl |-> dl, szer |-> szer,
                  angle_degrees |-> angle_degrees,
                  is_real_dimensions |-> is_real_dimensions,
                  ret |-> calculate_gable_roof(dl, szer, angle_degrees,
                                                   is_real_dimensions)]
    /\ UNCHANGED <<items, transport_percent, transport_vat, settings, before_items, objects>>

CalculateHipRoof(dl, szer, angle_degrees, is_real_dimensions) ==
    /\ result' = [op |-> "calculate_hip_roof", dl |-> dl, szer |-> szer,
                  angle_degrees |-> angle_degrees,
                  is_real_dimensions |-> is_real_dimensions,
                  ret |-> calculate_hip_roof(dl, szer, angle_degrees,
                                                 is_real_dimensions)]
    /\ UNCHANGED <<items, transport_percent, transport_vat, settings, before_items, objects>>

NextRoof ==
    \E dl \in Lengths, szer \in Lengths, angle_degrees \in AngleArgs,
       is_real_dimensions \in BOOLEAN :
        \/ CalculateSingleSlopeRoof(dl, szer, angle_degrees, is_real_dimensions)
        \/ CalculateGableRoof(dl, szer, angle_degrees, is_real_dimensions)
        \/ CalculateHipRoof(dl, szer, angle_degrees, is_real_dimensions)

SpecRoof == InitRoof /\ [][NextRoof]_vars

----------------------------------------------------------------------------
(* Roof geometry: angles *)

RoofCalls ==
    {"calculate_single_slope_roof", "calculate_gable_roof", "calculate_hip_roof"}

RoofFields ==
    {"dlugosc_okapu", "dlugosc_gasiorow", "dlugosc_wiatrownic",
     "powierzchnia_dachu", "dlugosc_koszy", "slant_rafter_length"}

\* The call applies the angle: the hip roof always, the others in
\* Horizontal mode.
AngleApplies ==
    result.op = "calculate_hip_roof" \/ ~result.is_real_dimensions

\* C8: a roof call that applies an angle outside [0, 90) fails with an
\* error, and no roof call on non-negative dimensions returns an area or a
\* length that is infinite, NaN or negative.
C8_DegenerateAngleRaises ==
    result.op \in RoofCalls =>
        /\ (/\ AngleApplies
            /\ result.angle_degrees # None
            /\ ~(0 <= result.angle_degrees[1] /\ result.angle_degrees[1] < 90))
                => result.ret.error # ""
        /\ result.ret.error = "" =>
            \A f \in RoofFields :
                IsFinite(result.ret.value[f]) /\ result.ret.value[f][1] >= 0

\* C9 as stated: a gable roof given in Real mode by its rafter length w has
\* the area of the gable roof given in Horizontal mode by
\* calculate_horizontal_length(w, angle).
C9_ModeEquivalence ==
    (/\ result.op = "calculate_gable_roof"
     /\ result.is_real_dimensions
     /\ result.angle_degrees # None
     /\ 0 < result.angle_degrees[1] /\ result.angle_degrees[1] < 90) =>
        LET horizontal ==
                calculate_gable_roof(result.dl,
                    calculate_horizontal_length(result.szer, result.angle_degrees),
                    result.angle_degrees, FALSE)
        IN  /\ horizontal.error = ""
            /\ horizontal.value.powierzchnia_dachu
                    = result.ret.value.powierzchnia_dachu

\* C9 amended: Horizontal mode takes the width of the whole building, twice
\* the horizontal run of one rafter, so the Real-mode area is the area of
\* the Horizontal-mode roof of width
\* 2 * calculate_horizontal_length(w, angle).
C9_ModeEquivalenceOfWholeWidth ==
    (/\ result.op = "calculate_gable_roof"
     /\ result.is_real_dimensions
     /\ result.angle_degrees # None
     /\ 0 < result.angle_degrees[1] /\ result.angle_degrees[1] < 90) =>
        LET horizontal ==
                calculate_gable_roof(result.dl,
                    Mul(Float(2, 1),
                        calculate_horizontal_length(result.szer, result.angle_degrees)),
                    result.angle_degrees, FALSE)
        IN  /\ horizontal.error = ""
            /\ horizontal.value.powierzchnia_dachu
                    = result.ret.value.powierzchnia_dachu

\* C9's case: the Real-mode gable roof of length 10 and rafter length 8 at
\* 30 degrees, of area 160.
C9_Witness ==
    /\ result.op = "calculate_gable_roof"
    /\ result.is_real_dimensions
    /\ result.angle_degrees = Some(30)
    /\ result.dl = Float(10, 1)
    /\ result.szer = Float(8, 1)
    /\ result.ret.error = ""
    /\ result.ret.value.powierzchnia_dachu = Float(160, 1)

\* C10: a roof call with angle None raises exactly when the angle is
\* required, the hip roof in both modes and the others in Horizontal mode,
\* and a call is never refused for a missing angle otherwise.
C10_MissingAngleRaisesWhenRequired ==
    result.op \in RoofCalls =>
        (result.ret.error = "ValueError"
            <=> (result.angle_degrees = None /\ AngleApplies))

\* C10's case: the hip roof called in Real mode without an angle has
\* raised.
C10_Witness ==
    /\ result.op = "calculate_hip_roof"
    /\ result.is_real_dimensions
    /\ result.angle_degrees = None
    /\ result.ret.error = "ValueError"

----------------------------------------------------------------------------
(* Material takeoff: gutter_calculations.py, chimney_calculations.py,      *)
(* flashing_calculations.py, felt_calculations.py, timber_calculations.py  *)
(* Lengths, surfaces and volumes are exact fractions; counts are integers. *)

\* math.ceil of a finite float.
ceil(a) == -((-a[1]) \div a[2])

\* a < 0 and a > 0 for a finite a.
Negative(a) == a[1] < 0
Positive(a) == a[1] > 0

max(a, b) == IF a >= b THEN a ELSE b

\* calculate_guttering's estimate of the number of downpipes.
estimated_downpipes(okap_length_m) ==
    IF Positive(okap_length_m)
    THEN max(1, ceil(Div(okap_length_m, Float(10, 1))))
    ELSE 0

guttering_end_caps_per_gutter(okap_length_m, roof_height_m, num_downpipes) ==
    LET actual_num_downpipes ==
            IF num_downpipes = None THEN estimated_downpipes(okap_length_m)
            ELSE num_downpipes[1]
    IN  IF Negative(okap_length_m) \/ Negative(roof_height_m) \/ actual_num_downpipes < 0
        THEN Raised("ValueError")
        ELSE Returned(
            [total_gutter_length_m |-> okap_length_m,
             total_downpipe_length_m |-> Mul(Float(actual_num_downpipes, 1), roof_height_m),
             num_downpipes |-> actual_num_downpipes,
             num_gutter_hooks |-> ceil(Div(okap_length_m, Float(1, 2))),
             num_gutter_connectors |-> max(0, ceil(Div(okap_length_m, Float(3, 1))) - 1),
             num_downpipe_outlets |-> actual_num_downpipes,
             num_downpipe_clamps |->
                ceil(Div(Mul(Float(actual_num_downpipes, 1), roof_height_m), Float(2, 1))),
             num_downpipe_elbows |-> actual_num_downpipes * 2,
             num_end_caps |-> IF Positive(okap_length_m) THEN 2 ELSE 0])

calculate_guttering(okap_length_m, roof_height_m, num_downpipes) ==
    IF Negative(okap_length_m) \/ Negative(roof_height_m) THEN Raised("ValueError")
    ELSE LET total_gutter_length_m == okap_length_m
             actual_num_downpipes ==
                IF num_downpipes = None THEN estimated_downpipes(okap_length_m)
                ELSE num_downpipes[1]
             total_downpipe_length_m ==
                Mul(Float(actual_num_downpipes, 1), roof_height_m)
         IN  IF actual_num_downpipes < 0 THEN Raised("ValueError")
             ELSE Returned(
                [total_gutter_length_m |-> total_gutter_length_m,
                 total_downpipe_length_m |-> total_downpipe_length_m,
                 num_downpipes |-> actual_num_downpipes,
                 num_gutter_hooks |->
                    IF Positive(total_gutter_length_m)
                    THEN ceil(Div(total_gutter_length_m, Float(1, 2))) ELSE 0,
                 num_gutter_connectors |->
                    max(0, ceil(Div(total_gutter_length_m, Float(3, 1))) - 1),
                 num_downpipe_outlets |-> actual_num_downpipes,
                 num_downpipe_clamps |->
                    IF Positive(total_downpipe_length_m)
                    THEN ceil(Div(total_downpipe_length_m, Float(2, 1))) ELSE 0,
                 num_downpipe_elbows |-> actual_num_downpipes * 2,
                 num_end_caps |-> 2])

\* 1.25 * 2.5, the area of a standard sheet of metal.
sheet_area == Float(3125, 1000)

\* The chimney materials from the perimeter on; with_felt is whether the
\* covering needs felt flashing and a clamping strip.
chimney_materials(width_m, length_m, height_above_roof_m, num_chimneys, with_felt) ==
    LET perimeter == Mul(Float(2, 1), Add(width_m, length_m))
        lower_flashing_surface_m2 == Mul(perimeter, Float(1, 2))
        side_flashing_height_with_overlap == Add(height_above_roof_m, Float(20, 100))
        cladding_surface_m2 == Mul(perimeter, side_flashing_height_with_overlap)
        cap_width_with_overlap == Add(width_m, Mul(Float(2, 1), Float(5, 100)))
        cap_length_with_overlap == Add(length_m, Mul(Float(2, 1), Float(5, 100)))
        chimney_cap_surface_m2 == Mul(cap_width_with_overlap, cap_length_with_overlap)
        felt_flashing_surface_m2 == Mul(perimeter, Float(1, 2))
        clamping_strip_length_m == perimeter
        n == Float(num_chimneys, 1)
        total_metal_flashing_surface_m2 ==
            Add(Mul(lower_flashing_surface_m2, n), Mul(cladding_surface_m2, n))
        total_chimney_cap_surface_m2 == Mul(chimney_cap_surface_m2, n)
    IN  [total_metal_flashing_surface_m2 |-> total_metal_flashing_surface_m2,
         num_metal_sheets_flashing |->
            ceil(Div(total_metal_flashing_surface_m2, sheet_area)),
         total_chimney_cap_surface_m2 |-> total_chimney_cap_surface_m2,
         num_metal_sheets_cap |-> ceil(Div(total_chimney_cap_surface_m2, sheet_area)),
         total_felt_flashing_surface_m2 |->
            IF with_felt THEN Mul(felt_flashing_surface_m2, n) ELSE Float(0, 1),
         total_clamping_strip_length_m |->
            IF with_felt THEN Mul(clamping_strip_length_m, n) ELSE Float(0, 1),
         single_chimney_perimeter |-> perimeter]

\* The result for a chimney with a zero dimension or for zero chimneys.
no_chimney_materials(zero) ==
    [total_metal_flashing_surface_m2 |-> zero,
     num_metal_sheets_flashing |-> 0,
     total_chimney_cap_surface_m2 |-> zero,
     num_metal_sheets_cap |-> 0,
     total_felt_flashing_surface_m2 |-> zero,
     total_clamping_strip_length_m |-> zero,
     single_chimney_perimeter |-> zero]

calculate_chimney_flashings_felt_under_tiles(width_m, length_m, height_above_roof_m, roof_angle_deg, roof_covering_type, num_chimneys) ==
    IF \/ Negative(width_m) \/ Negative(length_m) \/ Negative(height_above_roof_m)
       \/ num_chimneys < 0
    THEN Raised("ValueError")
    ELSE IF roof_angle_deg < 0 \/ roof_angle_deg > 90 THEN Raised("ValueError")
    ELSE IF \/ width_m = Float(0, 1) \/ length_m = Float(0, 1)
            \/ height_above_roof_m = Float(0, 1) \/ num_chimneys = 0
    THEN Returned(no_chimney_materials(Float(0, 1)))
    ELSE Returned(chimney_materials(width_m, length_m, height_above_roof_m,
                                    num_chimneys, roof_covering_type # "blacha"))

calculate_chimney_flashings(width_m, length_m, height_above_roof_m, roof_angle_deg, roof_covering_type, num_chimneys) ==
    IF \/ Negative(width_m) \/ Negative(length_m) \/ Negative(height_above_roof_m)
       \/ num_chimneys < 0
    THEN Raised("ValueError")
    ELSE IF roof_angle_deg < 0 \/ roof_angle_deg > 90 THEN Raised("ValueError")
    ELSE IF \/ width_m = Float(0, 1) \/ length_m = Float(0, 1)
            \/ height_above_roof_m = Float(0, 1) \/ num_chimneys = 0
    THEN Returned(no_chimney_materials(Float(0, 1)))
    ELSE Returned(chimney_materials(width_m, length_m, height_above_roof_m,
                    num_chimneys,
                    ~(roof_covering_type = "blacha" \/ roof_covering_type = "dachówka")))

calculate_chimney_insulation(width_m, length_m, height_above_roof_m, num_chimneys) ==
    IF \/ ~Positive(width_m) \/ ~Positive(length_m) \/ ~Positive(height_above_roof_m)
       \/ num_chimneys <= 0
    THEN Returned([total_insulation_surface_m2 |-> Float(0, 1),
                   total_mesh_surface_m2 |-> Float(0, 1)])
    ELSE LET single_chimney_side_surface ==
                Mul(Mul(Float(2, 1), Add(width_m, length_m)), height_above_roof_m)
             total_insulation_surface_m2 ==
                Mul(single_chimney_side_surface, Float(num_chimneys, 1))
         IN  Returned([total_insulation_surface_m2 |-> total_insulation_surface_m2,
                       total_mesh_surface_m2 |-> total_insulation_surface_m2])

\* A flashing entry.
Flashing(selected, length, width) ==
    [selected |-> selected, length |-> length, width |-> width]

\* The loop over flashing_items: the surface summed so far, or the error
\* raised at a selected entry with a negative side.
RECURSIVE flashing_surface(_, _)
flashing_surface(flashing_items, k) ==
    IF k = 0 THEN Returned(Float(0, 1))
    ELSE LET sofar == flashing_surface(flashing_items, k - 1)
             data == flashing_items[k]
         IN  IF sofar.error # "" THEN sofar
             ELSE IF ~data.selected THEN sofar
             ELSE IF Negative(data.length) \/ Negative(data.width)
                  THEN Raised("ValueError")
             ELSE Returned(Add(sofar.value, Mul(data.length, data.width)))

calculate_flashings_total_of_all_entries(flashing_items, standard_sheet_width, standard_sheet_length) ==
    LET all == [k \in 1..Len(flashing_items) |->
                    [flashing_items[k] EXCEPT !.selected = TRUE]]
        total == flashing_surface(all, Len(all))
        standard_sheet_area == Mul(standard_sheet_width, standard_sheet_length)
    IN  IF total.error # "" THEN total
        ELSE Returned(
            [total_surface_m2 |-> total.value,
             num_sheets |-> IF Positive(total.value)
                            THEN ceil(Div(total.value, standard_sheet_area)) ELSE 0])

calculate_flashings_total(flashing_items, standard_sheet_width, standard_sheet_length) ==
    LET total == flashing_surface(flashing_items, Len(flashing_items))
        standard_sheet_area == Mul(standard_sheet_width, standard_sheet_length)
    IN  IF total.error # "" THEN total
        ELSE Returned(
            [total_surface_m2 |-> total.value,
             num_sheets |-> IF Positive(total.value)
                            THEN ceil(Div(total.value, standard_sheet_area)) ELSE 0])

calculate_timber_volume_of_centimetres(quantity, length_m, width_cm, height_cm) ==
    IF quantity < 0 \/ Negative(length_m) \/ Negative(width_cm) \/ Negative(height_cm)
    THEN Raised("ValueError")
    ELSE Returned(Mul(Mul(Mul(Float(quantity, 1), length_m), width_cm), height_cm))

calculate_timber_volume(quantity, length_m, width_cm, height_cm) ==
    IF quantity < 0 \/ Negative(length_m) \/ Negative(width_cm) \/ Negative(height_cm)
    THEN Raised("ValueError")
    ELSE LET width_m == Div(width_cm, Float(100, 1))
             height_m == Div(height_cm, Float(100, 1))
         IN  Returned(Mul(Mul(Mul(Float(quantity, 1), length_m), width_m), height_m))

\* felt_waste_factor
felt_waste_factor(roof_type) ==
    IF roof_type \in {"jednospadowy", "dwuspadowy"} THEN Float(115, 100)
    ELSE Float(118, 100)

substrate(decking_m2, osb_m2, concrete_topping_m3, primer_liters) ==
    [decking_m2 |-> decking_m2, osb_m2 |-> osb_m2,
     concrete_topping_m3 |-> concrete_topping_m3, primer_liters |-> primer_liters]

substrate_materials_of_new_roof(roof_surface_m2, is_tear_off, is_decking, is_osb_on_battens, is_concrete) ==
    IF is_decking
    THEN substrate(roof_surface_m2, Float(0, 1), Float(0, 1), Float(0, 1))
    ELSE IF is_osb_on_battens
    THEN substrate(Float(0, 1), roof_surface_m2, Float(0, 1), Float(0, 1))
    ELSE IF is_concrete
    THEN substrate(Float(0, 1), Float(0, 1), Float(0, 1),
                   Mul(roof_surface_m2, Float(2, 10)))
    ELSE substrate(Float(0, 1), Float(0, 1), Float(0, 1), Float(0, 1))

\* Step 4 of calculate_felt_roof, the materials of the substrate.
substrate_materials(roof_surface_m2, is_tear_off, is_decking, is_osb_on_battens, is_concrete) ==
    IF is_tear_off
    THEN IF is_decking
         THEN substrate(Mul(roof_surface_m2, Float(30, 100)), Float(0, 1),
                        Float(0, 1), Float(0, 1))
         ELSE IF is_concrete
         THEN substrate(Float(0, 1), Float(0, 1),
                        Mul(Mul(roof_surface_m2, Float(20, 100)), Float(3, 100)),
                        Mul(roof_surface_m2, Float(2, 10)))
         ELSE substrate(Float(0, 1), Float(0, 1), Float(0, 1), Float(0, 1))
    ELSE IF is_decking
         THEN substrate(Mul(roof_surface_m2, Float(1, 1)), Float(0, 1),
                        Float(0, 1), Float(0, 1))
         ELSE IF is_osb_on_battens
         THEN substrate(Float(0, 1), Mul(roof_surface_m2, Float(1, 1)),
                        Float(0, 1), Float(0, 1))
         ELSE IF is_concrete
         THEN substrate(Float(0, 1), Float(0, 1), Float(0, 1),
                        Mul(roof_surface_m2, Float(2, 10)))
         ELSE substrate(Float(0, 1), Float(0, 1), Float(0, 1), Float(0, 1))

felt_result(total_top_felt_m2, total_underlay_felt_m2, sub, firewall_osb_m2, firewall_felt_m2) ==
    [total_top_felt_m2 |-> total_top_felt_m2,
     total_underlay_felt_m2 |-> total_underlay_felt_m2,
     decking_m2 |-> sub.decking_m2,
     osb_m2 |-> sub.osb_m2,
     concrete_topping_m3 |-> sub.concrete_topping_m3,
     primer_liters |-> sub.primer_liters,
     firewall_osb_m2 |-> firewall_osb_m2,
     firewall_felt_m2 |-> firewall_felt_m2]

calculate_felt_roof(roof_surface_m2, roof_type, is_tear_off, is_decking, is_osb_on_battens, is_concrete, chimney_felt_surface_m2, firewall_length_m, firewall_height_m, firewall_thickness_m) ==
    IF Negative(roof_surface_m2) THEN Raised("ValueError")
    ELSE IF /\ roof_surface_m2 = Float(0, 1)
            /\ chimney_felt_surface_m2 = Float(0, 1)
            /\ firewall_length_m = Float(0, 1)
    THEN Returned(felt_result(Float(0, 1), Float(0, 1),
                              substrate(Float(0, 1), Float(0, 1), Float(0, 1), Float(0, 1)),
                              Float(0, 1), Float(0, 1)))
    ELSE LET top == Mul(roof_surface_m2, felt_waste_factor(roof_type))
             underlay ==
                IF ~is_concrete
                THEN Mul(roof_surface_m2, felt_waste_factor(roof_type))
                ELSE Float(0, 1)
             firewall ==
                /\ Positive(firewall_length_m)
                /\ Positive(firewall_height_m)
                /\ Positive(firewall_thickness_m)
             firewall_osb_m2 ==
                IF firewall
                THEN Mul(Mul(firewall_length_m, firewall_height_m), Float(2, 1))
                ELSE Float(0, 1)
             felt_developed_width_for_firewall ==
                Add(Add(Mul(Float(2, 1), firewall_height_m), firewall_thickness_m),
                    Float(15, 100))
             firewall_felt_m2 ==
                IF firewall
                THEN Mul(firewall_length_m, felt_developed_width_for_firewall)
                ELSE Float(0, 1)
             added == Add(chimney_felt_surface_m2, firewall_felt_m2)
         IN  Returned(felt_result(
                Add(top, added),
                IF Positive(underlay) THEN Add(underlay, added) ELSE underlay,
                substrate_materials(roof_surface_m2, is_tear_off, is_decking,
                                    is_osb_on_battens, is_concrete),
                firewall_osb_m2, firewall_felt_m2))

----------------------------------------------------------------------------
(* A caller of the material takeoff calculators *)

\* okap_length_m: -1, 0, 0.5, 3, 6.2, 10, 25
OkapLengths ==
    {Float(-1, 1), Float(0, 1), Float(1, 2), Float(3, 1), Float(62, 10),
     Float(10, 1), Float(25, 1)}
\* roof_height_m: -1, 0, 2.5, 3
RoofHeights == {Float(-1, 1), Float(0, 1), Float(5, 2), Float(3, 1)}
DownpipeArgs == {None, Some(-1), Some(0), Some(2)}

\* <<width_m, length_m, height_above_roof_m>>
ChimneyDimensions ==
    {<<Float(4, 10), Float(6, 10), Float(12, 10)>>,
     <<Float(1, 1), Float(1, 1), Float(8, 10)>>,
     <<Float(0, 1), Float(6, 10), Float(12, 10)>>,
     <<Float(4, 10), Float(6, 10), Float(0, 1)>>,
     <<Float(-4, 10), Float(6, 10), Float(12, 10)>>}
ChimneyCounts == {-1, 0, 1, 3}
RoofAngles == {30, 95}
RoofCoverings == {"blacha", "dachówka", "papa"}

FlashingEntries ==
    {Flashing(TRUE, Float(2, 1), Float(8, 10)),
     Flashing(TRUE, Float(25, 10), Float(125, 100)),
     Flashing(FALSE, Float(4, 1), Float(1, 1)),
     Flashing(TRUE, Float(-1, 1), Float(1, 2)),
     Flashing(FALSE, Float(-1, 1), Float(1, 2)),
     Flashing(TRUE, Float(0, 1), Float(3, 10))}
MaxFlashings == 2
\* <<standard_sheet_width, standard_sheet_length>>, the default first
SheetSizes == {<<Float(125, 100), Float(250, 100)>>, <<Float(1, 1), Float(2, 1)>>}

RoofSurfaces == {Float(-1, 1), Float(0, 1), Float(10, 1)}
RoofTypes == {"dwuspadowy", "kopertowy"}
\* <<is_decking, is_osb_on_battens, is_concrete>>
SubstrateFlags ==
    {<<FALSE, FALSE, FALSE>>, <<TRUE, FALSE, FALSE>>, <<FALSE, TRUE, FALSE>>,
     <<FALSE, FALSE, TRUE>>, <<TRUE, FALSE, TRUE>>, <<FALSE, TRUE, TRUE>>}
ChimneyFeltSurfaces == {Float(0, 1), Float(2, 1)}
\* <<firewall_length_m, firewall_height_m, firewall_thickness_m>>
Firewalls ==
    {<<Float(0, 1), Float(0, 1), Float(0, 1)>>,
     <<Float(5, 1), Float(1, 1), Float(3, 10)>>,
     <<Float(5, 1), Float(0, 1), Float(3, 10)>>}

TimberQuantities == {-1, 0, 4}
TimberLengths == {Float(-1, 1), Float(0, 1), Float(45, 10)}
TimberWidths == {Float(0, 1), Float(8, 1)}
TimberHeights == {Float(-2, 1), Float(0, 1), Float(16, 1)}

InitTakeoff ==
    /\ NoObjects
    /\ items = <<>>
    /\ transport_percent = 0
    /\ transport_vat = 0
    /\ settings = MarginSettings(DefaultGlobalMargin)
    /\ before_items = items
    /\ result = NoCall

CalculateGuttering(okap_length_m, roof_height_m, num_downpipes) ==
    /\ result' = [op |-> "calculate_guttering", okap_length_m |-> okap_length_m,
                  roof_height_m |-> roof_height_m, num_downpipes |-> num_downpipes,
                  ret |-> calculate_guttering(okap_length_m, roof_height_m,
                                              num_downpipes)]
    /\ UNCHANGED <<items, transport_percent, transport_vat, settings, before_items, objects>>

CalculateChimneyFlashings(dims, roof_angle_deg, roof_covering_type, num_chimneys) ==
    /\ result' = [op |-> "calculate_chimney_flashings", width_m |-> dims[1],
                  length_m |-> dims[2], height_above_roof_m |-> dims[3],
                  roof_angle_deg |-> roof_angle_deg,
                  roof_covering_type |-> roof_covering_type,
                  num_chimneys |-> num_chimneys,
                  ret |-> calculate_chimney_flashings(dims[1], dims[2], dims[3],
                            roof_angle_deg, roof_covering_type, num_chimneys)]
    /\ UNCHANGED <<items, transport_percent, transport_vat, settings, before_items, objects>>

CalculateChimneyInsulation(dims, num_chimneys) ==
    /\ result' = [op |-> "calculate_chimney_insulation", width_m |-> dims[1],
                  length_m |-> dims[2], height_above_roof_m |-> dims[3],
                  num_chimneys |-> num_chimneys,
                  ret |-> calculate_chimney_insulation(dims[1], dims[2], dims[3],
                                                       num_chimneys)]
    /\ UNCHANGED <<items, transport_percent, transport_vat, settings, before_items, objects>>

CalculateFlashingsTotal(flashing_items, sheet) ==
    /\ result' = [op |-> "calculate_flashings_total",
                  flashing_items |-> flashing_items,
                  standard_sheet_width |-> sheet[1],
                  standard_sheet_length |-> sheet[2],
                  ret |-> calculate_flashings_total(flashing_items, sheet[1], sheet[2])]
    /\ UNCHANGED <<items, transport_percent, transport_vat, settings, before_items, objects>>

CalculateFeltRoof(roof_surface_m2, roof_type, is_tear_off, flags, chimney_felt_surface_m2, firewall) ==
    /\ result' = [op |-> "calculate_felt_roof", roof_surface_m2 |-> roof_surface_m2,
                  roof_type |-> roof_type, is_tear_off |-> is_tear_off,
                  is_decking |-> flags[1], is_osb_on_battens |-> flags[2],
                  is_concrete |-> flags[3],
                  chimney_felt_surface_m2 |-> chimney_felt_surface_m2,
                  firewall_length_m |-> firewall[1],
                  firewall_height_m |-> firewall[2],
                  firewall_thickness_m |-> firewall[3],
                  ret |-> calculate_felt_roof(roof_surface_m2, roof_type, is_tear_off,
                            flags[1], flags[2], flags[3], chimney_felt_surface_m2,
                            firewall[1], firewall[2], firewall[3])]
    /\ UNCHANGED <<items, transport_percent, transport_vat, settings, before_items, objects>>

CalculateTimberVolume(quantity, length_m, width_cm, height_cm) ==
    /\ result' = [op |-> "calculate_timber_volume", quantity |-> quantity,
                  length_m |-> length_m, width_cm |-> width_cm,
                  height_cm |-> height_cm,
                  ret |-> calculate_timber_volume(quantity, length_m, width_cm,
                                                  height_cm)]
    /\ UNCHANGED <<items, transport_percent, transport_vat, settings, before_items, objects>>

NextTakeoff ==
    \/ \E L \in OkapLengths, h \in RoofHeights, n \in DownpipeArgs :
            CalculateGuttering(L, h, n)
    \/ \E dims \in ChimneyDimensions, a \in RoofAngles, c \in RoofCoverings,
          n \in ChimneyCounts : CalculateChimneyFlashings(dims, a, c, n)
    \/ \E dims \in ChimneyDimensions, n \in ChimneyCounts :
            CalculateChimneyInsulation(dims, n)
    \/ \E fs \in SeqsUpTo(FlashingEntries, MaxFlashings), sheet \in SheetSizes :
            CalculateFlashingsTotal(fs, sheet)
    \/ \E r \in RoofSurfaces, t \in RoofTypes, tear \in BOOLEAN,
          flags \in SubstrateFlags, c \in ChimneyFeltSurfaces, fw \in Firewalls :
            CalculateFeltRoof(r, t, tear, flags, c, fw)
    \/ \E q \in TimberQuantities, l \in TimberLengths, w \in TimberWidths,
          h \in TimberHeights : CalculateTimberVolume(q, l, w, h)

SpecTakeoff == InitTakeoff /\ [][NextTakeoff]_vars

----------------------------------------------------------------------------
(* Material takeoff: negative and zero inputs *)

TakeoffCalls ==
    {"calculate_guttering", "calculate_chimney_flashings",
     "calculate_chimney_insulation", "calculate_flashings_total",
     "calculate_felt_roof", "calculate_timber_volume"}

\* The call recorded in result has a negative dimension, surface or count
\* among its arguments (for the flashings, in a selected entry).
NegativeArgument ==
    CASE result.op = "calculate_guttering" ->
            \/ Negative(result.okap_length_m) \/ Negative(result.roof_height_m)
            \/ (result.num_downpipes # None /\ result.num_downpipes[1] < 0)
      [] result.op \in {"calculate_chimney_flashings", "calculate_chimney_insulation"} ->
            \/ Negative(result.width_m) \/ Negative(result.length_m)
            \/ Negative(result.height_above_roof_m) \/ result.num_chimneys < 0
      [] result.op = "calculate_flashings_total" ->
            \E k \in 1..Len(result.flashing_items) :
                /\ result.flashing_items[k].selected
                /\ \/ Negative(result.flashing_items[k].length)
                   \/ Negative(result.flashing_items[k].width)
      [] result.op = "calculate_felt_roof" ->
            \/ Negative(result.roof_surface_m2)
            \/ Negative(result.chimney_felt_surface_m2)
            \/ Negative(result.firewall_length_m)
            \/ Negative(result.firewall_height_m)
            \/ Negative(result.firewall_thickness_m)
      [] result.op = "calculate_timber_volume" ->
            \/ result.quantity < 0 \/ Negative(result.length_m)
            \/ Negative(result.width_cm) \/ Negative(result.height_cm)
      [] OTHER -> FALSE

\* C11: every material takeoff calculator raises an error, and returns no
\* result, when one of its dimension, surface or count arguments is
\* negative.
C11_NegativeArgumentRaises ==
    (result.op \in TakeoffCalls /\ NegativeArgument) => result.ret.error # ""

----------------------------------------------------------------------------
(* Pricing: invalid items and the empty list *)

\* validate_cost_item's conditions on quantity, price and VAT rate.
InvalidItem(item) ==
    \/ item.quantity < 0
    \/ item.price_unit_net < 0
    \/ item.vat_rate \notin {0, 8, 23}

\* C12: compute_item on an item with a negative quantity, a negative unit
\* price or a VAT rate other than 0, 8, 23 does not return a priced item,
\* and compute_totals on a list with such an item does not return totals.
C12_InvalidItemIsRefused ==
    /\ (result.op = "compute_item" /\ InvalidItem(before_items[result.index]))
            => "total_gross" \notin DOMAIN result.ret
    /\ (/\ result.op = "compute_totals"
        /\ \E i \in 1..Len(before_items) : InvalidItem(before_items[i]))
            => "summary" \notin DOMAIN result.ret

\* C14: compute_totals of the empty list returns a summary of 0, 0, 0 and a
\* transport line of 0, 0, 0 for every transport percent and VAT rate.
C14_EmptyListGivesZeroTotals ==
    (result.op = "compute_totals" /\ before_items = <<>>) =>
        /\ result.ret.summary = ZeroSums
        /\ result.ret.transport.net = 0
        /\ result.ret.transport.vat = 0
        /\ result.ret.transport.gross = 0

\* C14's case: compute_totals has been called on the empty list with a
\* positive transport percent and VAT rate.
C14_Witness ==
    /\ result.op = "compute_totals"
    /\ before_items = <<>>
    /\ transport_percent > 0
    /\ transport_vat > 0
    /\ result.ret.summary = ZeroSums

----------------------------------------------------------------------------
(* Material takeoff: zero inputs *)

\* The call recorded in result is one of C13's zero-input calls, with no
\* negative argument and, for the chimney flashings, a roof angle the
\* function accepts.
ZeroInput ==
    /\ ~NegativeArgument
    /\ CASE result.op = "calculate_guttering" -> result.okap_length_m = Float(0, 1)
         [] result.op = "calculate_chimney_flashings" ->
                /\ 0 <= result.roof_angle_deg /\ result.roof_angle_deg <= 90
                /\ \/ result.width_m = Float(0, 1) \/ result.length_m = Float(0, 1)
                   \/ result.height_above_roof_m = Float(0, 1)
                   \/ result.num_chimneys = 0
         [] result.op = "calculate_chimney_insulation" ->
                \/ result.width_m = Float(0, 1) \/ result.length_m = Float(0, 1)
                \/ result.height_above_roof_m = Float(0, 1)
                \/ result.num_chimneys = 0
         [] result.op = "calculate_flashings_total" ->
                \A k \in 1..Len(result.flashing_items) :
                    result.flashing_items[k].selected =>
                        \/ result.flashing_items[k].length = Float(0, 1)
                        \/ result.flashing_items[k].width = Float(0, 1)
         [] result.op = "calculate_felt_roof" ->
                /\ result.roof_surface_m2 = Float(0, 1)
                /\ result.chimney_felt_surface_m2 = Float(0, 1)
                /\ result.firewall_length_m = Float(0, 1)
         [] result.op = "calculate_timber_volume" ->
                \/ result.quantity = 0 \/ result.length_m = Float(0, 1)
                \/ result.width_cm = Float(0, 1) \/ result.height_cm = Float(0, 1)
         [] OTHER -> FALSE

\* Every quantity of a returned value is 0; counts are integers, lengths,
\* surfaces and volumes are fractions.
AllZero(op, value) ==
    IF op = "calculate_timber_volume" THEN value = Float(0, 1)
    ELSE \A f \in DOMAIN value :
            IF f \in {"num_downpipes", "num_gutter_hooks", "num_gutter_connectors",
                      "num_downpipe_outlets", "num_downpipe_clamps",
                      "num_downpipe_elbows", "num_end_caps",
                      "num_metal_sheets_flashing", "num_metal_sheets_cap",
                      "num_sheets"}
            THEN value[f] = 0
            ELSE value[f] = Float(0, 1)

\* C13: a takeoff call with a zero input (eave length 0, a zero chimney
\* dimension or count, zero flashing surface, all felt surfaces zero, a
\* zero timber factor) returns without error a result whose every quantity
\* is 0.
C13_ZeroInputGivesZeroResult ==
    (result.op \in TakeoffCalls /\ ZeroInput) =>
        /\ result.ret.error = ""
        /\ AllZero(result.op, result.ret.value)

----------------------------------------------------------------------------
(* Material takeoff: the quantities *)

\* k is the smallest integer that is at least the fraction a.
SmallestIntegerAtLeast(k, a) == k * a[2] >= a[1] /\ (k - 1) * a[2] < a[1]

\* C15: calculate_guttering called with non-negative arguments returns the
\* gutter length L, the given downpipe count or else ceil(L / 10), at least
\* 1, for L > 0 and 0 for L = 0, downpipe length count * h, hooks
\* ceil(L / 0.5), connectors max(0, ceil(L / 3) - 1), one outlet and two
\* elbows per downpipe, clamps ceil(count * h / 2) and 2 end caps.
C15_GutteringQuantities ==
    (result.op = "calculate_guttering" /\ ~NegativeArgument) =>
        LET L == result.okap_length_m
            h == result.roof_height_m
            r == result.ret.value
            count == r.num_downpipes
        IN  /\ result.ret.error = ""
            /\ r.total_gutter_length_m = L
            /\ result.num_downpipes # None => count = result.num_downpipes[1]
            /\ (result.num_downpipes = None /\ L = Float(0, 1)) => count = 0
            /\ (result.num_downpipes = None /\ Positive(L)) =>
                    /\ count >= 1
                    /\ SmallestIntegerAtLeast(count, Div(L, Float(10, 1)))
            /\ r.total_downpipe_length_m = Mul(Float(count, 1), h)
            /\ SmallestIntegerAtLeast(r.num_gutter_hooks, Mul(L, Float(2, 1)))
            /\ \E thirds \in 0..(L[1] + 1) :
                    /\ SmallestIntegerAtLeast(thirds, Div(L, Float(3, 1)))
                    /\ r.num_gutter_connectors = max(0, thirds - 1)
            /\ r.num_downpipe_outlets = count
            /\ r.num_downpipe_elbows = 2 * count
            /\ SmallestIntegerAtLeast(r.num_downpipe_clamps,
                                      Div(Mul(Float(count, 1), h), Float(2, 1)))
            /\ r.num_end_caps = 2

\* C15's case: an eave of 25 m and a drop of 2.5 m with no downpipe count
\* given: 3 downpipes are estimated, with 4 clamps and 8 connectors.
C15_Witness ==
    /\ result.op = "calculate_guttering"
    /\ result.okap_length_m = Float(25, 1)
    /\ result.roof_height_m = Float(5, 2)
    /\ result.num_downpipes = None
    /\ result.ret.error = ""
    /\ result.ret.value.num_downpipes = 3
    /\ result.ret.value.num_downpipe_clamps = 4
    /\ result.ret.value.num_gutter_connectors = 8

\* The surface of the selected entries among the first k.
RECURSIVE SelectedSurface(_, _)
SelectedSurface(fs, k) ==
    IF k = 0 THEN Float(0, 1)
    ELSE IF fs[k].selected
         THEN Add(SelectedSurface(fs, k - 1), Mul(fs[k].length, fs[k].width))
         ELSE SelectedSurface(fs, k - 1)

\* C16: calculate_flashings_total fails when a selected entry has a
\* negative length or width; otherwise it returns the sum of length * width
\* over the selected entries and, as num_sheets, 0 when that sum is 0 and
\* else the smallest n with n * sheet_width * sheet_length >= the sum.
C16_FlashingSheets ==
    result.op = "calculate_flashings_total" =>
        IF NegativeArgument THEN result.ret.error # ""
        ELSE LET fs == result.flashing_items
                 total == SelectedSurface(fs, Len(fs))
                 area == Mul(result.standard_sheet_width, result.standard_sheet_length)
                 n == result.ret.value.num_sheets
             IN  /\ result.ret.error = ""
                 /\ result.ret.value.total_surface_m2 = total
                 /\ total = Float(0, 1) => n = 0
                 /\ total # Float(0, 1) =>
                        /\ Ge(Mul(Float(n, 1), area), total)
                        /\ ~Ge(Mul(Float(n - 1, 1), area), total)

\* C16's case: two selected entries of 2 m x 0.8 m, 3.2 m2 together, need
\* 2 sheets of 1.25 m x 2.5 m.
C16_Witness ==
    /\ result.op = "calculate_flashings_total"
    /\ result.flashing_items =
            <<Flashing(TRUE, Float(2, 1), Float(8, 10)),
              Flashing(TRUE, Float(2, 1), Float(8, 10))>>
    /\ result.standard_sheet_width = Float(125, 100)
    /\ result.ret.error = ""
    /\ result.ret.value.total_surface_m2 = Float(32, 10)
    /\ result.ret.value.num_sheets = 2

\* An unselected entry next to a selected one has added nothing.
C16_UnselectedWitness ==
    /\ result.op = "calculate_flashings_total"
    /\ result.flashing_items =
            <<Flashing(FALSE, Float(4, 1), Float(1, 1)),
              Flashing(TRUE, Float(2, 1), Float(8, 10))>>
    /\ result.ret.error = ""
    /\ result.ret.value.total_surface_m2 = Float(16, 10)

\* The felt of a firewall of positive length, height and thickness:
\* length * (2 * height + thickness + 0.15); without such a firewall, 0.
FirewallFelt ==
    IF /\ Positive(result.firewall_length_m)
       /\ Positive(result.firewall_height_m)
       /\ Positive(result.firewall_thickness_m)
    THEN Mul(result.firewall_length_m,
             Add(Add(Mul(Float(2, 1), result.firewall_height_m),
                     result.firewall_thickness_m), Float(15, 100)))
    ELSE Float(0, 1)

\* roof surface * waste factor + chimney felt surface + firewall felt
FeltTotal ==
    Add(Add(Mul(result.roof_surface_m2,
                IF result.roof_type \in {"jednospadowy", "dwuspadowy"}
                THEN Float(115, 100) ELSE Float(118, 100)),
            result.chimney_felt_surface_m2),
        FirewallFelt)

\* C17: calculate_felt_roof returns, for a substrate that is not concrete,
\* top felt = underlay felt = roof surface * waste factor + chimney felt
\* surface + firewall felt, and for concrete the same top felt and an
\* underlay of 0.
C17_FeltTotals ==
    (result.op = "calculate_felt_roof" /\ ~NegativeArgument) =>
        /\ result.ret.error = ""
        /\ result.ret.value.total_top_felt_m2 = FeltTotal
        /\ result.ret.value.total_underlay_felt_m2 =
                IF result.is_concrete THEN Float(0, 1) ELSE FeltTotal

\* The call names at most one substrate.
OneSubstrate ==
    Cardinality({f \in {"is_decking", "is_osb_on_battens", "is_concrete"} :
                    result[f]}) <= 1

\* C18: for a call that names one substrate (or none) calculate_felt_roof
\* returns decking = 30% of the roof surface on tear-off with decking and
\* 100% on a new build with decking, OSB = 100% on a new build with OSB on
\* battens, primer = 0.2 l per m2 on concrete and a topping of 20% of the
\* surface * 0.03 m on tear-off of concrete, and 0 for every other
\* substrate quantity.
C18_SubstrateTable ==
    (result.op = "calculate_felt_roof" /\ ~NegativeArgument /\ OneSubstrate) =>
        LET r == result.roof_surface_m2
            v == result.ret.value
        IN  /\ result.ret.error = ""
            /\ v.decking_m2 =
                    IF result.is_decking
                    THEN IF result.is_tear_off THEN Mul(r, Float(30, 100)) ELSE r
                    ELSE Float(0, 1)
            /\ v.osb_m2 =
                    IF result.is_osb_on_battens /\ ~result.is_tear_off THEN r
                    ELSE Float(0, 1)
            /\ v.primer_liters =
                    IF result.is_concrete THEN Mul(r, Float(2, 10)) ELSE Float(0, 1)
            /\ v.concrete_topping_m3 =
                    IF result.is_concrete /\ result.is_tear_off
                    THEN Mul(Mul(r, Float(20, 100)), Float(3, 100))
                    ELSE Float(0, 1)

\* C18's case: tear-off of 10 m2 on concrete: 2 litres of primer and
\* 0.06 m3 of topping.
C18_Witness ==
    /\ result.op = "calculate_felt_roof"
    /\ result.roof_surface_m2 = Float(10, 1)
    /\ result.is_tear_off
    /\ result.is_concrete /\ ~result.is_decking /\ ~result.is_osb_on_battens
    /\ result.ret.error = ""
    /\ result.ret.value.primer_liters = Float(2, 1)
    /\ result.ret.value.concrete_topping_m3 = Float(6, 100)
    /\ result.ret.value.decking_m2 = Float(0, 1)

\* The call is calculate_chimney_flashings with all dimensions and the
\* count positive.
PositiveChimney ==
    /\ result.op = "calculate_chimney_flashings"
    /\ Positive(result.width_m) /\ Positive(result.length_m)
    /\ Positive(result.height_above_roof_m) /\ result.num_chimneys > 0

\* The quantities C19 names, of the call recorded in result.
ChimneyQuantitiesAsStated ==
    LET v == result.ret.value
        n == Float(result.num_chimneys, 1)
        perimeter == Mul(Float(2, 1), Add(result.width_m, result.length_m))
        metal == Mul(Mul(n, perimeter),
                     Add(Add(Float(5, 10), result.height_above_roof_m),
                         Float(20, 100)))
        cap == Mul(n, Mul(Add(result.width_m, Float(1, 10)),
                          Add(result.length_m, Float(1, 10))))
        no_felt == result.roof_covering_type \in {"blacha", "dachówka"}
    IN  /\ v.total_metal_flashing_surface_m2 = metal
        /\ v.total_chimney_cap_surface_m2 = cap
        /\ SmallestIntegerAtLeast(v.num_metal_sheets_flashing,
                                  Div(metal, Float(3125, 1000)))
        /\ SmallestIntegerAtLeast(v.num_metal_sheets_cap, Div(cap, Float(3125, 1000)))
        /\ v.total_felt_flashing_surface_m2 =
                IF no_felt THEN Float(0, 1) ELSE Mul(Mul(n, perimeter), Float(1, 2))
        /\ v.total_clamping_strip_length_m =
                IF no_felt THEN Float(0, 1) ELSE Mul(n, perimeter)
        /\ v.single_chimney_perimeter = perimeter

\* C19 as stated: calculate_chimney_flashings with all dimensions and the
\* count positive returns the metal flashing and cap surfaces, their sheet
\* counts of ceil(surface / 3.125), and felt flashing and clamping strip
\* that are 0 for 'blacha' and 'dachówka'; nothing else depends on the
\* covering type.
C19_ChimneyFlashings ==
    PositiveChimney => (result.ret.error = "" /\ ChimneyQuantitiesAsStated)

\* C19 amended: the same, for a roof angle from 0 to 90 degrees; for a roof
\* angle outside that range the call raises ValueError.
C19_ChimneyFlashingsInAngleRange ==
    PositiveChimney =>
        IF 0 <= result.roof_angle_deg /\ result.roof_angle_deg <= 90
        THEN result.ret.error = "" /\ ChimneyQuantitiesAsStated
        ELSE result.ret.error = "ValueError"

\* C19's case: three chimneys of 0.4 m x 0.6 m, 1.2 m above a tiled roof:
\* 11.4 m2 of flashing in 4 sheets, and no felt flashing.
C19_Witness ==
    /\ PositiveChimney
    /\ result.width_m = Float(4, 10)
    /\ result.num_chimneys = 3
    /\ result.roof_covering_type = "dachówka"
    /\ result.ret.error = ""
    /\ result.ret.value.total_metal_flashing_surface_m2 = Float(114, 10)
    /\ result.ret.value.num_metal_sheets_flashing = 4
    /\ result.ret.value.total_felt_flashing_surface_m2 = Float(0, 1)

----------------------------------------------------------------------------
(* MarginSettings: the group margins over time *)

\* The entry of group g, None when g is not mapped.
GroupEntry(s, g) ==
    IF g \in DOMAIN s.group_margins THEN Some(s.group_margins[g]) ELSE None

\* From settings s to settings t nothing but the entry of group g changed.
OnlyGroupChanged(s, t, g) ==
    /\ t.global_margin_percent = s.global_margin_percent
    /\ \A h \in (DOMAIN s.group_margins \cup DOMAIN t.group_margins) \ {g} :
            GroupEntry(t, h) = GroupEntry(s, h)

\* A step of set_group_margin(g, m) leaves get_margin_for_item(group = g)
\* at `set`(g, m), a step of remove_group_margin(g) leaves it at the global
\* margin; either changes only the entry of g, a remove of an unmapped
\* group changes nothing, and no other step changes the settings.  So along
\* every behaviour get_margin_for_item(group = g) is what the most recent
\* of these steps on g left.
GroupMarginSteps(set(_, _)) ==
    /\ result'.op = "set_group_margin" =>
        /\ get_margin_for_item(settings', Some(result'.group), None)
                = set(result'.group, result'.margin_percent)
        /\ OnlyGroupChanged(settings, settings', result'.group)
    /\ result'.op = "remove_group_margin" =>
        /\ get_margin_for_item(settings', Some(result'.group), None)
                = settings'.global_margin_percent
        /\ OnlyGroupChanged(settings, settings', result'.group)
        /\ result'.group \notin DOMAIN settings.group_margins => settings' = settings
    /\ result'.op \notin {"set_group_margin", "remove_group_margin"} =>
        settings' = settings

\* The margin set for any group name.
AsSet(g, m) == m

\* The margin set for a group name that is not empty; the global margin for
\* the empty name.
AsSetForNamedGroup(g, m) == IF g = "" THEN settings'.global_margin_percent ELSE m

\* C20 as stated: get_margin_for_item(group = g) returns the value of the
\* most recent set_group_margin(g, .) if g has not been removed since and
\* the global margin otherwise; each call changes only the entry of its own
\* group, and removing an unmapped group changes nothing.
C20_GroupMarginIsLastSet == [][GroupMarginSteps(AsSet)]_vars

\* C20 amended: the same for every group name other than the empty string;
\* for the empty string set_group_margin stores the entry and
\* get_margin_for_item(group = "") returns the global margin.
C20_NamedGroupMarginIsLastSet == [][GroupMarginSteps(AsSetForNamedGroup)]_vars

\* C20's case: set_group_margin has replaced the margin of "Materials",
\* which differs from the global margin, while another group stays mapped.
C20_Witness ==
    /\ result.op = "set_group_margin"
    /\ result.group = "Materials"
    /\ result.margin_percent = 30
    /\ settings.global_margin_percent = 0
    /\ GroupEntry(settings, "Materials") = Some(30)
    /\ GroupEntry(settings, "") = Some(-90)

----------------------------------------------------------------------------
(* history.py: CostEstimateHistory.                                        *)
(*                                                                         *)
(* A dictionary of the program is an element of heap and is referred to by *)
(* its index; a list of dictionaries is a sequence of indices.  A          *)
(* dictionary is a record of the keys it has.  The time stamp of an entry  *)
(* is left out.  The metadata of an entry is the tuple                     *)
(* <<transport_percent, transport_vat>>, the empty dictionary is <<>>.     *)

MAX_HISTORY_ENTRIES == 50

\* d.get(key, default)
get(d, key, default) == IF key \in DOMAIN d THEN d[key] ELSE default

\* the dictionaries a list refers to, as values
values(h, list) == [i \in 1..Len(list) |-> h[list[i]]]

\* copy.deepcopy(list): every dictionary of the list is allocated anew
deepcopy(h, list) == [i \in 1..Len(list) |-> Len(h) + i]
heap_after_deepcopy(h, list) == h \o values(h, list)

HistoryEntry(version, description, items_count, total_gross, checksum, items_snapshot, metadata) == [version |-> version, description |-> description, items_count |-> items_count, total_gross |-> total_gross, checksum |-> checksum, items_snapshot |-> items_snapshot, metadata |-> metadata]

CostEstimateHistory(_entries, _current_version) == [_entries |-> _entries, _current_version |-> _current_version]

\* json.dumps(items, sort_keys=True) is the list of the values of the
\* items; the MD5 digest is taken to be free of collisions.
calculate_checksum(h, list) == values(h, list)

RECURSIVE sum_total_gross(_, _)
sum_total_gross(h, list) ==
    IF list = <<>> THEN 0
    ELSE get(h[Head(list)], "total_gross", 0) + sum_total_gross(h, Tail(list))

new_entry(hist, h, description, list, metadata) ==
    HistoryEntry(hist._current_version + 1, description, Len(list),
                 sum_total_gross(h, list), calculate_checksum(h, list),
                 deepcopy(h, list), IF metadata = None THEN <<>> ELSE metadata)

\* for i, e in enumerate(self._entries, 1): e.version = i
renumber(entries) == [i \in 1..Len(entries) |-> [entries[i] EXCEPT !.version = i]]

add_entry_discarding_newest(hist, h, description, list, metadata) ==
    LET appended == Append(hist._entries, new_entry(hist, h, description, list, metadata))
    IN  IF Len(appended) > MAX_HISTORY_ENTRIES
        THEN CostEstimateHistory(renumber(hist._entries), Len(appended) - 1)
        ELSE CostEstimateHistory(appended, hist._current_version + 1)

\* the history after add_entry; the call returns its last entry
add_entry(hist, h, description, list, metadata) ==
    LET appended == Append(hist._entries, new_entry(hist, h, description, list, metadata))
    IN  IF Len(appended) > MAX_HISTORY_ENTRIES
        THEN CostEstimateHistory(renumber(Tail(appended)), Len(appended) - 1)
        ELSE CostEstimateHistory(appended, hist._current_version + 1)

get_latest(hist) ==
    IF hist._entries # <<>> THEN Some(hist._entries[Len(hist._entries)]) ELSE None

get_entry(hist, version) ==
    LET found == {i \in 1..Len(hist._entries) : hist._entries[i].version = version}
    IN  IF found = {} THEN None
        ELSE Some(hist._entries[CHOOSE i \in found : \A j \in found : i <= j])

clear(hist) == CostEstimateHistory(<<>>, 0)

----------------------------------------------------------------------------
(* A caller of the history: it saves one item list again and again and     *)
(* numbers its saves from 1 in the description, as test_max_history_entries *)
(* does, and starts again after a clear.                                   *)

MaxSaves == 53
MaxHeap == 108

ItemLists ==
    {<<>>,
     <<[name |-> "Item 1", total_gross |-> 10000]>>,
     <<[name |-> "Item 1", total_gross |-> 10000], [name |-> "Item 2", total_gross |-> 5000]>>}

next_description(hist) ==
    IF hist._entries = <<>> THEN 1 ELSE hist._entries[Len(hist._entries)].description + 1

InitHistory ==
    /\ items = <<>>
    /\ transport_percent = 0
    /\ transport_vat = 0
    /\ settings = MarginSettings(DefaultGlobalMargin)
    /\ before_items = items
    /\ result = NoCall
    /\ heap \in ItemLists
    /\ cost_items = [i \in 1..Len(heap) |-> i]
    /\ history = CostEstimateHistory(<<>>, 0)
    /\ manager = None
    /\ settings_data = None
    /\ restored = None

\* history.add_entry(description, items), without metadata
AddEntry ==
    /\ next_description(history) <= MaxSaves
    /\ Len(heap_after_deepcopy(heap, cost_items)) <= MaxHeap
    /\ history' = add_entry(history, heap, next_description(history), cost_items, None)
    /\ heap' = heap_after_deepcopy(heap, cost_items)
    /\ result' = [op |-> "add_entry", description |-> next_description(history),
                  ret |-> get_latest(history')[1]]
    /\ UNCHANGED <<items, transport_percent, transport_vat, settings, before_items,
                   cost_items, manager, settings_data, restored>>

Clear ==
    /\ history' = clear(history)
    /\ result' = [op |-> "clear"]
    /\ UNCHANGED <<items, transport_percent, transport_vat, settings, before_items,
                   heap, cost_items, manager, settings_data, restored>>

NextHistory ==
    \/ AddEntry
    \/ Clear

SpecHistory == InitHistory /\ [][NextHistory]_vars

----------------------------------------------------------------------------
(* C21 *)

C21_Numbered ==
    /\ Len(history._entries) <= MAX_HISTORY_ENTRIES
    /\ \A i \in 1..Len(history._entries) : history._entries[i].version = i
    /\ history._current_version = Len(history._entries)

C21_LatestIsLastAdded ==
    result.op = "add_entry" =>
        /\ get_latest(history) = Some(result.ret)
        /\ result.ret.description = result.description
        /\ values(heap, result.ret.items_snapshot) = values(heap, cost_items)

\* the entries of a list without their version numbers
unnumbered(entries) == [i \in 1..Len(entries) |-> [entries[i] EXCEPT !.version = 0]]

C21_OldestIsDiscarded ==
    result'.op = "add_entry" =>
        LET old == unnumbered(history._entries)
            new == unnumbered(history'._entries)
        IN  /\ new # <<>>
            /\ SubSeq(new, 1, Len(new) - 1) =
                   IF Len(old) = MAX_HISTORY_ENTRIES THEN Tail(old) ELSE old

\* C21: after any sequence of add_entry and clear the history holds at most
\* MAX_HISTORY_ENTRIES entries, numbered 1..n in list order with
\* n = _current_version; get_latest is the entry added last; and an
\* add_entry on a full history discards the oldest entry and no other.
C21_HistoryIsBoundedAndNumbered ==
    [](C21_Numbered /\ C21_LatestIsLastAdded) /\ [][C21_OldestIsDiscarded]_vars

\* the bound has been exceeded: the first save is gone
C21_Witness ==
    /\ result.op = "add_entry"
    /\ Len(history._entries) = MAX_HISTORY_ENTRIES
    /\ history._entries[1].description > 1
    /\ cost_items # <<>>

----------------------------------------------------------------------------
(* version_models.py, version_service.py: VersionManager.                  *)
(*                                                                         *)
(* The id (a UUID) and the creation time of a version are left out.  A     *)
(* snapshot is the record of its keys 'items' and 'total_gross'; a text    *)
(* with a number formatted into it is the tuple of the text and the        *)
(* number; texts are written without diacritics.                           *)

Version(version_number, author, description, snapshot, changes) == [version_number |-> version_number, author |-> author, description |-> description, snapshot |-> snapshot, changes |-> changes]

VersionHistory(estimate_id, versions) == [estimate_id |-> estimate_id, versions |-> versions]

VersionManager(author, histories) == [author |-> author, histories |-> histories]

\* list.sort(key=lambda v: v.version_number), a stable sort
insert_by_version_number(sorted, v) ==
    LET k == Cardinality({i \in 1..Len(sorted) : sorted[i].version_number <= v.version_number})
    IN  SubSeq(sorted, 1, k) \o <<v>> \o SubSeq(sorted, k + 1, Len(sorted))

RECURSIVE sort_by_version_number(_)
sort_by_version_number(versions) ==
    IF versions = <<>> THEN <<>>
    ELSE insert_by_version_number(sort_by_version_number(SubSeq(versions, 1, Len(versions) - 1)),
                                  versions[Len(versions)])

\* list.sort(key=lambda v: v.version_number, reverse=True), a stable sort
insert_by_version_number_reverse(sorted, v) ==
    LET k == Cardinality({i \in 1..Len(sorted) : sorted[i].version_number >= v.version_number})
    IN  SubSeq(sorted, 1, k) \o <<v>> \o SubSeq(sorted, k + 1, Len(sorted))

RECURSIVE sort_by_version_number_reverse(_)
sort_by_version_number_reverse(versions) ==
    IF versions = <<>> THEN <<>>
    ELSE insert_by_version_number_reverse(
             sort_by_version_number_reverse(SubSeq(versions, 1, Len(versions) - 1)),
             versions[Len(versions)])

add_version(hist, version) ==
    VersionHistory(hist.estimate_id, sort_by_version_number(Append(hist.versions, version)))

\* max(self.versions, key=...): the first version with the largest number
get_latest_version(hist) ==
    IF hist.versions = <<>> THEN None
    ELSE Some(hist.versions[CHOOSE i \in 1..Len(hist.versions) :
                  \A j \in 1..Len(hist.versions) :
                      /\ hist.versions[j].version_number <= hist.versions[i].version_number
                      /\ j < i => hist.versions[j].version_number < hist.versions[i].version_number])

get_next_version_number_by_count(hist) == Len(hist.versions) + 1

get_next_version_number(hist) ==
    IF hist.versions = <<>> THEN 1
    ELSE get_latest_version(hist)[1].version_number + 1

get_history(mgr, estimate_id) ==
    IF estimate_id \in DOMAIN mgr.histories THEN Some(mgr.histories[estimate_id]) ELSE None

with_history(mgr, hist) ==
    VersionManager(mgr.author,
                   [id \in DOMAIN mgr.histories \cup {hist.estimate_id} |->
                       IF id = hist.estimate_id THEN hist ELSE mgr.histories[id]])

_detect_changes(old_snapshot, new_snapshot) ==
    LET new_items == Len(new_snapshot.items)
        old_items == Len(old_snapshot.items)
        diff == new_snapshot.total_gross - old_snapshot.total_gross
    IN  (IF new_items > old_items THEN << <<"Dodano pozycji", new_items - old_items>> >>
         ELSE IF new_items < old_items THEN << <<"Usunieto pozycji", old_items - new_items>> >>
         ELSE <<>>)
        \o
        (IF diff = 0 THEN <<>>
         ELSE IF diff > 0 THEN << <<"Zwiekszono wartosc", diff>> >>
         ELSE << <<"Zmniejszono wartosc", Abs(diff)>> >>)

\* the history create_version works on: the estimate's, or a new one
history_of(mgr, estimate_id) ==
    IF estimate_id \in DOMAIN mgr.histories THEN mgr.histories[estimate_id]
    ELSE VersionHistory(estimate_id, <<>>)

\* the version create_version returns
create_version(mgr, estimate_id, snapshot, description, auto_detect_changes) ==
    LET hist == history_of(mgr, estimate_id)
        version_number == get_next_version_number(hist)
        changes == IF auto_detect_changes /\ hist.versions # <<>>
                   THEN _detect_changes(get_latest_version(hist)[1].snapshot, snapshot)
                   ELSE <<>>
    IN  Version(version_number, mgr.author,
                IF description # None THEN description
                ELSE IF version_number = 1 THEN <<"Wersja poczatkowa">>
                ELSE IF changes # <<>> THEN <<"Aktualizacja (zmian)", Len(changes)>>
                ELSE <<"Zmodyfikowano">>,
                snapshot, changes)

manager_after_create_version(mgr, estimate_id, snapshot, description, auto_detect_changes) ==
    with_history(mgr, add_version(history_of(mgr, estimate_id),
                     create_version(mgr, estimate_id, snapshot, description, auto_detect_changes)))

\* whether delete_version goes on to remove the version
deletes(mgr, estimate_id, version_number) ==
    /\ estimate_id \in DOMAIN mgr.histories
    /\ Len(mgr.histories[estimate_id].versions) > 1
    /\ get_latest_version(mgr.histories[estimate_id])[1].version_number # version_number

\* the value delete_version returns
delete_version(mgr, estimate_id, version_number) == deletes(mgr, estimate_id, version_number)

without_version(versions, version_number) ==
    SelectSeq(versions, LAMBDA v : v.version_number # version_number)

manager_after_delete_version(mgr, estimate_id, version_number) ==
    IF deletes(mgr, estimate_id, version_number)
    THEN with_history(mgr, VersionHistory(estimate_id,
             without_version(mgr.histories[estimate_id].versions, version_number)))
    ELSE mgr

\* whether prune_old_versions goes on to remove versions
prunes(mgr, estimate_id, keep_count) ==
    /\ estimate_id \in DOMAIN mgr.histories
    /\ Len(mgr.histories[estimate_id].versions) > keep_count

\* the value prune_old_versions returns, for keep_count >= 0
prune_old_versions(mgr, estimate_id, keep_count) ==
    IF prunes(mgr, estimate_id, keep_count)
    THEN Len(mgr.histories[estimate_id].versions) - keep_count
    ELSE 0

manager_after_prune_old_versions(mgr, estimate_id, keep_count) ==
    IF prunes(mgr, estimate_id, keep_count)
    THEN with_history(mgr, VersionHistory(estimate_id,
             SubSeq(sort_by_version_number_reverse(mgr.histories[estimate_id].versions),
                    1, keep_count)))
    ELSE mgr

----------------------------------------------------------------------------
(* A caller of the version manager *)

MaxVersionNumber == 4

EstimateIds == {"estimate-1", "estimate-2"}
CreatedEstimateIds == {"estimate-1"}
Snapshots ==
    {[items |-> <<"Item 1">>, total_gross |-> 10000],
     [items |-> <<"Item 1", "Item 2">>, total_gross |-> 20000]}
Descriptions == {None, <<"Custom change description">>}
VersionNumbers == 1..(MaxVersionNumber + 1)
KeepCounts == {1, 2, 10}

InitVersions ==
    /\ items = <<>>
    /\ transport_percent = 0
    /\ transport_vat = 0
    /\ settings = MarginSettings(DefaultGlobalMargin)
    /\ before_items = items
    /\ result = NoCall
    /\ heap = <<>>
    /\ cost_items = <<>>
    /\ history = None
    /\ manager = VersionManager("Test User", [id \in {} |-> None])
    /\ settings_data = None
    /\ restored = None

CreateVersion(estimate_id, snapshot, description, auto_detect_changes) ==
    /\ get_next_version_number(history_of(manager, estimate_id)) <= MaxVersionNumber
    /\ manager' = manager_after_create_version(manager, estimate_id, snapshot, description,
                                               auto_detect_changes)
    /\ result' = [op |-> "create_version", estimate_id |-> estimate_id,
                  ret |-> create_version(manager, estimate_id, snapshot, description,
                                         auto_detect_changes)]
    /\ UNCHANGED <<items, transport_percent, transport_vat, settings, before_items,
                   heap, cost_items, history, settings_data, restored>>

DeleteVersion(estimate_id, version_number) ==
    /\ manager' = manager_after_delete_version(manager, estimate_id, version_number)
    /\ result' = [op |-> "delete_version", estimate_id |-> estimate_id,
                  version_number |-> version_number,
                  ret |-> delete_version(manager, estimate_id, version_number)]
    /\ UNCHANGED <<items, transport_percent, transport_vat, settings, before_items,
                   heap, cost_items, history, settings_data, restored>>

PruneOldVersions(estimate_id, keep_count) ==
    /\ manager' = manager_after_prune_old_versions(manager, estimate_id, keep_count)
    /\ result' = [op |-> "prune_old_versions", estimate_id |-> estimate_id,
                  keep_count |-> keep_count,
                  ret |-> prune_old_versions(manager, estimate_id, keep_count)]
    /\ UNCHANGED <<items, transport_percent, transport_vat, settings, before_items,
                   heap, cost_items, history, settings_data, restored>>

NextVersions ==
    \/ \E estimate_id \in CreatedEstimateIds, snapshot \in Snapshots,
          description \in Descriptions, auto_detect_changes \in BOOLEAN :
           CreateVersion(estimate_id, snapshot, description, auto_detect_changes)
    \/ \E estimate_id \in EstimateIds, version_number \in VersionNumbers :
           DeleteVersion(estimate_id, version_number)
    \/ \E estimate_id \in EstimateIds, keep_count \in KeepCounts :
           PruneOldVersions(estimate_id, keep_count)

SpecVersions == InitVersions /\ [][NextVersions]_vars

----------------------------------------------------------------------------
(* C22 *)

versions_of(mgr, estimate_id) ==
    IF estimate_id \in DOMAIN mgr.histories THEN mgr.histories[estimate_id].versions ELSE <<>>

version_numbers(versions) == {versions[i].version_number : i \in 1..Len(versions)}

Max(S) == CHOOSE x \in S : \A y \in S : y <= x

\* the cases in which the claim has delete_version refuse
Refused(mgr, estimate_id, k) ==
    \/ estimate_id \notin DOMAIN mgr.histories
    \/ Len(versions_of(mgr, estimate_id)) = 1
    \/ k = Max(version_numbers(versions_of(mgr, estimate_id)))

C22_DeleteStep ==
    result'.op = "delete_version" =>
        LET before == versions_of(manager, result'.estimate_id)
            after == versions_of(manager', result'.estimate_id)
            k == result'.version_number
        IN  /\ result'.ret <=> (after # before)
            /\ IF Refused(manager, result'.estimate_id, k)
               THEN ~result'.ret /\ manager' = manager
               ELSE /\ result'.ret
                    /\ k \in version_numbers(before)
                    /\ k \notin version_numbers(after)
                    /\ after = without_version(before, k)

\* C22: delete_version returns True exactly when it removed a version: it
\* returns False and changes nothing for an unknown estimate, a history of
\* one version or the latest version number; in every other case it removes
\* version k, keeps the others and returns True.
C22_DeleteReturnsWhetherRemoved == [][C22_DeleteStep]_vars

----------------------------------------------------------------------------
(* C28 *)

\* the k largest numbers of a set
Highest(S, k) == {x \in S : Cardinality({y \in S : y > x}) < k}

C28_Distinct ==
    \A estimate_id \in DOMAIN manager.histories :
        LET versions == manager.histories[estimate_id].versions
        IN  \A i, j \in 1..Len(versions) :
                i # j => versions[i].version_number # versions[j].version_number

C28_Step ==
    /\ \A estimate_id \in DOMAIN manager.histories :
           Max(version_numbers(versions_of(manager, estimate_id)))
               \in version_numbers(versions_of(manager', estimate_id))
    /\ result'.op = "create_version" =>
           LET before == versions_of(manager, result'.estimate_id)
               after == versions_of(manager', result'.estimate_id)
           IN  /\ \A n \in version_numbers(before) : result'.ret.version_number > n
               /\ result'.ret.version_number = Max(version_numbers(after))
               /\ version_numbers(after) = version_numbers(before) \cup {result'.ret.version_number}
    /\ result'.op = "prune_old_versions" =>
           LET before == versions_of(manager, result'.estimate_id)
               after == versions_of(manager', result'.estimate_id)
           IN  /\ version_numbers(after) = Highest(version_numbers(before), result'.keep_count)
               /\ Len(after) = Cardinality(version_numbers(after))
               /\ result'.ret = Len(before) - Len(after)

\* C28: after any sequence of create_version, delete_version and
\* prune_old_versions(keep_count >= 1) the version numbers of a history are
\* pairwise distinct; no step removes the highest-numbered version, and a new
\* version gets a number above every number of the history, hence above every
\* number issued before; prune_old_versions leaves the keep_count
\* highest-numbered versions (all of them if there are fewer) and returns
\* the number of versions it removed.
C28_VersionNumbersAreNotReused == []C28_Distinct /\ [][C28_Step]_vars

\* a version created after others were removed: its number is not the count
C28_Witness ==
    /\ result.op = "create_version"
    /\ result.ret.version_number > Len(versions_of(manager, result.estimate_id))

\* a prune that removed versions
C28_PruneWitness ==
    /\ result.op = "prune_old_versions"
    /\ result.ret > 0

----------------------------------------------------------------------------
(* C23 *)

\* C23: calculate_selling_price returns purchase * (1 + margin/100) and
\* calculate_purchase_price returns selling / (1 + margin/100), rounded to
\* cents half away from zero: a result on a half cent is rounded away from
\* zero.
C23_RoundsHalfAwayFromZero ==
    /\ result.op = "calculate_selling_price" =>
           result.ret = RoundHalfUp(result.purchase_price * (100 + result.margin), 1000)
    /\ (result.op = "calculate_purchase_price" /\ result.ret.error = "") =>
           result.ret.value =
               RoundHalfUp(Sign(100 + result.margin) * result.selling_price * 100,
                           Abs(100 + result.margin))

----------------------------------------------------------------------------
(* C24 *)

\* the horizontal run of a rafter: the width of a single slope, half the
\* width of a gable roof, half the shorter side of a hip roof
HorizontalRun ==
    IF result.op = "calculate_single_slope_roof" THEN result.szer
    ELSE IF result.op = "calculate_gable_roof" THEN Div(result.szer, Float(2, 1))
    ELSE Div(IF Ge(result.dl, result.szer) THEN result.szer ELSE result.dl, Float(2, 1))

\* C24: each of the three roof functions takes, in Horizontal mode, the
\* rafter slant as the horizontal run divided by cos(angle), and in Real
\* mode the supplied width as the slant length, without applying the angle;
\* the single-slope area is length * slant, the gable area is
\* 2 * length * slant with eave 2 * length and ridge length.
C24_SlantByMode ==
    (result.op \in RoofCalls /\ result.ret.error = "") =>
        LET slant == result.ret.value.slant_rafter_length
        IN  /\ (/\ ~result.is_real_dimensions
                /\ result.angle_degrees # None
                /\ cos(result.angle_degrees[1])[1] # 0)
                   => slant = Div(HorizontalRun, cos(result.angle_degrees[1]))
            /\ result.is_real_dimensions => slant = result.szer
            /\ result.op = "calculate_single_slope_roof"
                   => result.ret.value.powierzchnia_dachu = Mul(result.dl, slant)
            /\ result.op = "calculate_gable_roof"
                   => /\ result.ret.value.powierzchnia_dachu
                             = Mul(Mul(Float(2, 1), result.dl), slant)
                      /\ result.ret.value.dlugosc_okapu = Mul(Float(2, 1), result.dl)
                      /\ result.ret.value.dlugosc_gasiorow = result.dl

\* the same for the single-slope and the gable roof only
C24_SlantByModeButHip ==
    result.op # "calculate_hip_roof" => C24_SlantByMode

----------------------------------------------------------------------------
(* C25 *)

Shorter == IF Ge(result.dl, result.szer) THEN result.szer ELSE result.dl
Longer == IF Ge(result.dl, result.szer) THEN result.dl ELSE result.szer

\* C25: calculate_hip_roof(l, w, angle) and calculate_hip_roof(w, l, angle)
\* return the same result; the rafter slant is that of the run min(l, w)/2,
\* the ridge length is 4 * hip-rafter slant + |l - w|, the eave is the
\* perimeter and the area is that of two triangles on the shorter sides and
\* two trapezoids on the longer ones.
C25_HipRoofIsSymmetric ==
    result.op = "calculate_hip_roof" =>
        /\ calculate_hip_roof(result.szer, result.dl, result.angle_degrees,
                              result.is_real_dimensions) = result.ret
        /\ result.ret.error = "" =>
            LET half == Div(Shorter, Float(2, 1))
                slant == calculate_slant_length(half, result.angle_degrees)
                hip_rafter_slant ==
                    calculate_slant_length(Mul(half, Sqrt2), result.angle_degrees)
            IN  /\ result.ret.value.slant_rafter_length = slant
                /\ result.ret.value.dlugosc_gasiorow
                       = Add(Mul(Float(4, 1), hip_rafter_slant), Sub(Longer, Shorter))
                /\ result.ret.value.dlugosc_okapu
                       = Mul(Float(2, 1), Add(Longer, Shorter))
                /\ result.ret.value.powierzchnia_dachu
                       = Add(Mul(Shorter, slant),
                             Mul(Add(Sub(Longer, Shorter), Longer), slant))

\* the case of the swap: a base wider than long, at 30 degrees
C25_Witness ==
    /\ result.op = "calculate_hip_roof"
    /\ result.dl = Float(8, 1)
    /\ result.szer = Float(10, 1)
    /\ result.angle_degrees = Some(30)
    /\ result.ret.error = ""
    /\ result.ret.value.slant_rafter_length = Div(Float(4, 1), cos(30))

----------------------------------------------------------------------------
(* main_app044.py: compute_totals_local, the aggregator the application    *)
(* calls.  It rounds with the built-in round; the tables list the half     *)
(* cents of the model's inputs that the program rounds towards zero.  The  *)
(* sums of the buckets, which the program does not round, are taken as the *)
(* exact sums of cents.                                                    *)

\* <<quantity, price_unit_net>>: round(qty * price, 2)
LocalNetRoundsDown == {<<1, 350>>, <<15, 30>>}
\* <<net, vat_rate>>: round(net * vat / 100.0, 2)
LocalVatRoundsDown == {<<550, 23>>}
\* <<total_net, transport_percent>>: round(total_net * (transport_percent/100.0), 2)
LocalTransportRoundsDown == {<<550, 30>>, <<1650, 30>>}

\* aug = dict(it) with the three totals; the VAT is taken of the rounded net
local_item(it) ==
    LET net == round(it.quantity * it.price_unit_net, 100,
                     <<it.quantity, it.price_unit_net>> \in LocalNetRoundsDown)
        vat_val == round(net * it.vat_rate, 100, <<net, it.vat_rate>> \in LocalVatRoundsDown)
    IN  [it EXCEPT !.total_net = net, !.vat_value = vat_val, !.total_gross = net + vat_val]

\* it.get("category", "material"): the category as it is written
local_category(it) == IF it.category = "" THEN "material" ELSE it.category

RECURSIVE local_aggregate(_, _)
local_aggregate(res_items, k) ==
    IF k = 0 THEN [by_vat |-> EmptyBuckets, by_cat |-> EmptyBuckets, total |-> ZeroSums]
    ELSE LET acc == local_aggregate(res_items, k - 1)
             a == res_items[k]
         IN  [by_vat |-> AddToBucket(acc.by_vat, a.vat_rate,
                                     a.total_net, a.vat_value, a.total_gross),
              by_cat |-> AddToBucket(acc.by_cat, local_category(a),
                                     a.total_net, a.vat_value, a.total_gross),
              total |-> AddSums(acc.total, a.total_net, a.vat_value, a.total_gross)]

local_transport(total_net, tp, tv) ==
    LET transport_net ==
            IF tp > 0 THEN round(total_net * tp, 1000,
                                 <<total_net, tp>> \in LocalTransportRoundsDown)
            ELSE 0
        transport_vat_val ==
            IF transport_net > 0 THEN round(transport_net * tv, 100, FALSE) ELSE 0
    IN  [percent |-> tp, net |-> transport_net, vat |-> transport_vat_val,
         gross |-> transport_net + transport_vat_val]

compute_totals_local(its, tp, tv) ==
    LET res_items == [i \in 1..Len(its) |-> local_item(its[i])]
        acc == local_aggregate(res_items, Len(its))
        t == local_transport(acc.total.net, tp, tv)
    IN  [items |-> res_items, by_vat |-> acc.by_vat, by_category |-> acc.by_cat,
         transport |-> t,
         summary |-> AddSums(acc.total, t.net, t.vat, t.gross)]

----------------------------------------------------------------------------
(* The application's calculation next to the engine's *)

InitLocal == Init

\* calculate_cost_estimation: the items are not changed
ComputeTotalsLocal ==
    /\ result' = [op |-> "compute_totals_local",
                  ret |-> compute_totals_local(items, transport_percent, transport_vat)]
    /\ before_items' = items
    /\ UNCHANGED <<items, transport_percent, transport_vat, settings, objects>>

NextLocal ==
    \/ ComputeTotalsLocal
    \/ ComputeTotals

SpecLocal == InitLocal /\ [][NextLocal]_vars

----------------------------------------------------------------------------
(* C27 *)

\* C27: compute_totals_local returns the same per-item totals, by_vat and
\* by_category buckets, transport amounts and summary as compute_totals, for
\* every item list, transport percent and transport VAT rate.
C27_LocalIsComputeTotals ==
    result.op = "compute_totals_local" =>
        LET engine == compute_totals(items, transport_percent, transport_vat)
            local == result.ret
        IN  /\ Len(local.items) = Len(engine.items)
            /\ \A i \in 1..Len(local.items) :
                   /\ local.items[i].total_net = engine.items[i].total_net
                   /\ local.items[i].vat_value = engine.items[i].vat_value
                   /\ local.items[i].total_gross = engine.items[i].total_gross
            /\ local.by_vat = engine.by_vat
            /\ local.by_category = engine.by_category
            /\ local.transport.net = engine.transport.net
            /\ local.transport.vat = engine.transport.vat
            /\ local.transport.gross = engine.transport.gross
            /\ local.summary = engine.summary

----------------------------------------------------------------------------
(* main_app044.py: the application's item list and its history.  An item   *)
(* of the application is a dictionary without totals; of its keys the      *)
(* model keeps name and category.  The dialogs are answered with yes.      *)

MaxObjects == 5
MaxLiveItems == 2
MaxSnapshots == 2

ItemNames == {"Blacha"}
Categories == {"material", "service"}
FormItems == {[name |-> n, category |-> c] : n \in ItemNames, c \in Categories}

InitApp ==
    /\ items = <<>>
    /\ transport_percent = 30
    /\ transport_vat = 23
    /\ settings = MarginSettings(DefaultGlobalMargin)
    /\ before_items = items
    /\ result = NoCall
    /\ heap = <<>>
    /\ cost_items = <<>>
    /\ history = CostEstimateHistory(<<>>, 0)
    /\ manager = None
    /\ settings_data = None
    /\ restored = None

\* self.cost_items.append(item)
add_cost_item_from_form(item) ==
    /\ Len(heap) < MaxObjects
    /\ Len(cost_items) < MaxLiveItems
    /\ heap' = Append(heap, item)
    /\ cost_items' = Append(cost_items, Len(heap) + 1)
    /\ result' = [op |-> "add_cost_item_from_form"]
    /\ UNCHANGED <<items, transport_percent, transport_vat, settings, before_items,
                   history, manager, settings_data, restored>>

\* self.cost_items[idx] = dlg.result, a new dictionary
_edit_from_tree(idx, dlg_result) ==
    /\ Len(heap) < MaxObjects
    /\ dlg_result # heap[cost_items[idx]]
    /\ heap' = Append(heap, dlg_result)
    /\ cost_items' = [cost_items EXCEPT ![idx] = Len(heap) + 1]
    /\ result' = [op |-> "_edit_from_tree"]
    /\ UNCHANGED <<items, transport_percent, transport_vat, settings, before_items,
                   history, manager, settings_data, restored>>

\* del self.cost_items[idx]
_delete_from_tree(idx) ==
    /\ cost_items' = SubSeq(cost_items, 1, idx - 1) \o SubSeq(cost_items, idx + 1, Len(cost_items))
    /\ result' = [op |-> "_delete_from_tree"]
    /\ UNCHANGED <<items, transport_percent, transport_vat, settings, before_items,
                   heap, history, manager, settings_data, restored>>

\* self.cost_items.extend([self.cost_items[idx].copy()])
_duplicate_items(idx) ==
    /\ Len(heap) < MaxObjects
    /\ Len(cost_items) < MaxLiveItems
    /\ heap' = Append(heap, heap[cost_items[idx]])
    /\ cost_items' = Append(cost_items, Len(heap) + 1)
    /\ result' = [op |-> "_duplicate_items"]
    /\ UNCHANGED <<items, transport_percent, transport_vat, settings, before_items,
                   history, manager, settings_data, restored>>

\* self.cost_items[idx]["category"] = new_category: the dictionary itself
\* is assigned to
_change_category(idx) ==
    /\ heap' = [heap EXCEPT ![cost_items[idx]].category =
                   IF @ = "material" THEN "service" ELSE "material"]
    /\ result' = [op |-> "_change_category"]
    /\ UNCHANGED <<items, transport_percent, transport_vat, settings, before_items,
                   cost_items, history, manager, settings_data, restored>>

\* self.history.add_entry(description, self.cost_items.copy(), metadata)
save_history_snapshot(description) ==
    /\ Len(history._entries) < MaxSnapshots
    /\ Len(heap_after_deepcopy(heap, cost_items)) <= MaxObjects
    /\ history' = add_entry(history, heap, description, cost_items,
                            <<transport_percent, transport_vat>>)
    /\ heap' = heap_after_deepcopy(heap, cost_items)
    /\ result' = [op |-> "save_history_snapshot"]
    /\ UNCHANGED <<items, transport_percent, transport_vat, settings, before_items,
                   cost_items, manager, settings_data, restored>>

\* self.cost_items = entry.items_snapshot.copy(), a new list of the same
\* dictionaries, and a snapshot of the restoration
on_restore(version) ==
    /\ Len(history._entries) < MaxSnapshots
    /\ get_entry(history, version) # None
    /\ LET entry == get_entry(history, version)[1]
       IN  /\ Len(heap_after_deepcopy(heap, entry.items_snapshot)) <= MaxObjects
           /\ cost_items' = entry.items_snapshot
           /\ transport_percent' =
                  IF entry.metadata # <<>> THEN entry.metadata[1] ELSE transport_percent
           /\ transport_vat' =
                  IF entry.metadata # <<>> THEN entry.metadata[2] ELSE transport_vat
           /\ history' = add_entry(history, heap, <<"Przywrocono wersje", entry.version>>,
                                   entry.items_snapshot,
                                   IF entry.metadata # <<>> THEN entry.metadata
                                   ELSE <<transport_percent, transport_vat>>)
           /\ heap' = heap_after_deepcopy(heap, entry.items_snapshot)
    /\ result' = [op |-> "on_restore", version |-> version]
    /\ UNCHANGED <<items, settings, before_items, manager, settings_data, restored>>

NextApp ==
    \/ \E item \in FormItems : add_cost_item_from_form(item)
    \/ \E idx \in 1..Len(cost_items), dlg_result \in FormItems : _edit_from_tree(idx, dlg_result)
    \/ \E idx \in 1..Len(cost_items) : _delete_from_tree(idx)
    \/ \E idx \in 1..Len(cost_items) : _duplicate_items(idx)
    \/ \E idx \in 1..Len(cost_items) : _change_category(idx)
    \/ save_history_snapshot(<<"Zapisano">>)
    \/ \E version \in 1..MaxSnapshots : on_restore(version)

SpecApp == InitApp /\ [][NextApp]_vars

----------------------------------------------------------------------------
(* C26 *)

C26_EntriesKept ==
    \A i \in 1..Len(history._entries) :
        /\ i <= Len(history'._entries)
        /\ values(heap', history'._entries[i].items_snapshot)
               = values(heap, history._entries[i].items_snapshot)

\* C26: once add_entry has stored an entry, no saving of a snapshot, no
\* restoring of an entry and no editing of the live item list (add, edit,
\* duplicate, delete, change of category) changes the entry's
\* items_snapshot.
C26_SnapshotIsImmutable == [][C26_EntriesKept]_vars

\* the same for every operation but the change of a category
C26_SnapshotIsImmutableButByChangeCategory ==
    [][result'.op # "_change_category" => C26_EntriesKept]_vars

----------------------------------------------------------------------------
(* margin_calculator.py: MarginSettings.to_dict and from_dict.             *)
(*                                                                         *)
(* Here the group_margins dictionaries are elements of heap, and the       *)
(* group_margins field of a MarginSettings object or of a to_dict          *)
(* dictionary is a reference to one of them.                               *)

\* the MarginSettings value an object stands for
settings_of(h, object) ==
    [global_margin_percent |-> object.global_margin_percent,
     group_margins |-> h[object.group_margins]]

\* {'global_margin_percent': ..., 'group_margins': self.group_margins}
to_dict(object) ==
    [global_margin_percent |-> object.global_margin_percent,
     group_margins |-> object.group_margins]

\* cls(global_margin_percent=float(...), group_margins=data.get('group_margins', {}))
from_dict(dict) ==
    [global_margin_percent |-> dict.global_margin_percent,
     group_margins |-> dict.group_margins]

\* the heap after object.set_group_margin(group, margin_percent)
heap_after_set_group_margin(h, object, group, margin_percent) ==
    [h EXCEPT ![object.group_margins] =
        set_group_margin(settings_of(h, object), group, margin_percent).group_margins]

\* the heap after object.remove_group_margin(group)
heap_after_remove_group_margin(h, object, group) ==
    [h EXCEPT ![object.group_margins] =
        remove_group_margin(settings_of(h, object), group).group_margins]

----------------------------------------------------------------------------
(* A caller that serializes its settings and restores them, as             *)
(* test_to_dict_from_dict does, and goes on changing group margins.        *)

DictGroups == {"Materials", "Services"}
DictMargins == {28, 35}
Targets == {"settings", "restored"}

InitDict ==
    /\ items = <<>>
    /\ transport_percent = 0
    /\ transport_vat = 0
    /\ before_items = items
    /\ result = NoCall
    /\ heap \in {<<NoGroupMargins>>,
                 <<set_group_margin(MarginSettings(22), "Materials", 28).group_margins>>}
    /\ settings \in {[global_margin_percent |-> g, group_margins |-> 1] : g \in {DefaultGlobalMargin, 22}}
    /\ cost_items = <<>>
    /\ history = None
    /\ manager = None
    /\ settings_data = None
    /\ restored = None

ToDict ==
    /\ settings_data' = Some(to_dict(settings))
    /\ result' = [op |-> "to_dict"]
    /\ UNCHANGED <<items, transport_percent, transport_vat, settings, before_items,
                   heap, cost_items, history, manager, restored>>

FromDict ==
    /\ settings_data # None
    /\ restored' = Some(from_dict(settings_data[1]))
    /\ result' = [op |-> "from_dict"]
    /\ UNCHANGED <<items, transport_percent, transport_vat, settings, before_items,
                   heap, cost_items, history, manager, settings_data>>

\* the object a call is made on
target_object(target) == IF target = "settings" THEN settings ELSE restored[1]

SetGroupMarginOf(target, group, margin_percent) ==
    /\ target = "restored" => restored # None
    /\ heap' = heap_after_set_group_margin(heap, target_object(target), group, margin_percent)
    /\ result' = [op |-> "set_group_margin", target |-> target]
    /\ UNCHANGED <<items, transport_percent, transport_vat, settings, before_items,
                   cost_items, history, manager, settings_data, restored>>

RemoveGroupMarginOf(target, group) ==
    /\ target = "restored" => restored # None
    /\ heap' = heap_after_remove_group_margin(heap, target_object(target), group)
    /\ result' = [op |-> "remove_group_margin", target |-> target]
    /\ UNCHANGED <<items, transport_percent, transport_vat, settings, before_items,
                   cost_items, history, manager, settings_data, restored>>

NextDict ==
    \/ ToDict
    \/ FromDict
    \/ \E target \in Targets, group \in DictGroups, margin_percent \in DictMargins :
           SetGroupMarginOf(target, group, margin_percent)
    \/ \E target \in Targets, group \in DictGroups : RemoveGroupMarginOf(target, group)

SpecDict == InitDict /\ [][NextDict]_vars

----------------------------------------------------------------------------
(* C29 *)

C29_SameSettings ==
    result.op = "from_dict" => settings_of(heap, restored[1]) = settings_of(heap, settings)

\* a call on one object leaves the group margins of the other object and of
\* the dictionary as they were
C29_Independent ==
    (restored # None /\ result'.op \in {"set_group_margin", "remove_group_margin"}) =>
        LET other == IF result'.target = "settings" THEN restored[1] ELSE settings
        IN  /\ heap'[other.group_margins] = heap[other.group_margins]
            /\ heap'[settings_data[1].group_margins] = heap[settings_data[1].group_margins]

\* C29: MarginSettings.from_dict(s.to_dict()) has the global margin and the
\* group margins of s and is independent of s: a later set_group_margin or
\* remove_group_margin on either object leaves the group margins of the
\* other object, and of the dictionary returned by to_dict, unchanged.
C29_RestoredIsIndependentCopy == []C29_SameSettings /\ [][C29_Independent]_vars

\* the first half alone: the restored settings equal the original
C29_RestoredEqualsOriginal == []C29_SameSettings

----------------------------------------------------------------------------
(* C30 *)

C30_PurchaseStep ==
    result'.op = "calculate_purchase_price" =>
        /\ settings' = settings
        /\ result'.margin = get_margin_for_item(settings, result'.group,
                                                result'.item_margin_override)
        /\ IF result'.margin = -100
           THEN result'.ret = Raised("ZeroDivisionError")
           ELSE result'.ret.error = ""

\* C30: when the applicable margin is -100 %, calculate_purchase_price
\* raises ZeroDivisionError for every selling price and leaves the
\* MarginSettings unchanged; for every other margin it returns a value.
C30_MinusHundredRaises == [][C30_PurchaseStep]_vars

\* the case: a selling price of 125.00 at a global margin of -100 %
C30_Witness ==
    /\ result.op = "calculate_purchase_price"
    /\ result.margin = -100
    /\ result.selling_price = 12500
    /\ result.ret.error = "ZeroDivisionError"
    /\ settings.global_margin_percent = -100

====
